---- MODULE Spec2Model ----
(***************************************************************************)
(* Model of mondel's collection-operation contract (CollectionProxy) and   *)
(* the validator derivation (zodSchema / zodCreateSchema / zodUpdateSchema)*)
(* it relies on.  One contract instance bound to one schema and one        *)
(* validation mode receives calls; every call is one action that records   *)
(* the calls it makes on the underlying collection, the diagnostics it     *)
(* writes and the validator invocations it performs.                       *)
(***************************************************************************)
EXTENDS Integers, Sequences, FiniteSets, TLC

(***************************************************************************)
(* Bounds of the model.                                                    *)
(***************************************************************************)
MaxClock == 2
MaxDrift == 1
MaxBatch == 2
MaxCount == 2

(***************************************************************************)
(* JavaScript values.  A value is a tagged record; a document (a plain     *)
(* object) is a function from its own keys to values, and an absent key    *)
(* reads as undefined.                                                     *)
(***************************************************************************)
Undefined == [k |-> "undefined", v |-> 0]
Null == [k |-> "null", v |-> 0]
Str(s) == [k |-> "string", v |-> s]
Num(n) == [k |-> "number", v |-> n]
Bool(b) == [k |-> "boolean", v |-> b]
DateAt(t) == [k |-> "date", v |-> t]
Obj(d) == [k |-> "object", v |-> d]
Session(s) == [k |-> "session", v |-> s]
NativeId(h) == [k |-> "objectId", v |-> h]

EmptyDoc == <<>>

Get(doc, key) == IF key \in DOMAIN doc THEN doc[key] ELSE Undefined

Put(doc, key, val) ==
  [x \in DOMAIN doc \cup {key} |-> IF x = key THEN val ELSE doc[x]]

Without(doc, keys) == [x \in DOMAIN doc \ keys |-> doc[x]]

\* JavaScript truthiness, as used by `a || b`, `if (a)` and `!a`.
Truthy(val) ==
  CASE val.k = "undefined" -> FALSE
    [] val.k = "null" -> FALSE
    [] val.k = "boolean" -> val.v
    [] val.k = "number" -> val.v # 0
    [] val.k = "string" -> val.v # ""
    [] OTHER -> TRUE

(***************************************************************************)
(* Schemas.  schema.timestamps is `false` or a TimestampConfig; the config *)
(* is a function from a subset of {createdAt, updatedAt} to field names.   *)
(***************************************************************************)
TimestampsOff == [enabled |-> FALSE, config |-> EmptyDoc]
TimestampsOn(cfg) == [enabled |-> TRUE, config |-> cfg]

\* The resolution performed by schema(): `true` becomes the default pair of
\* names, `false` and undefined disable timestamps, a config is kept as given.
ResolveTimestamps(t) ==
  CASE t = Bool(TRUE) ->
         TimestampsOn([createdAt |-> "createdAt", updatedAt |-> "updatedAt"])
    [] t = Bool(FALSE) \/ t = Undefined -> TimestampsOff
    [] OTHER -> TimestampsOn(t.v)

UserFields ==
  [email |-> [type |-> "string", required |-> TRUE, unique |-> FALSE, email |-> TRUE],
   age |-> [type |-> "number", required |-> FALSE, unique |-> FALSE, min |-> 0, max |-> 150]]

\* `definition.validation ?? { enabled: false, mode: "off" }`
DefaultValidation == [enabled |-> FALSE, mode |-> "off"]

MakeSchema(t) ==
  [name |-> "users",
   collection |-> "users",
   timestamps |-> ResolveTimestamps(t),
   validation |-> DefaultValidation,
   fields |-> UserFields]

TimestampInputs ==
  {Bool(TRUE), Bool(FALSE), Obj([updatedAt |-> "updatedAt"]), Obj([createdAt |-> "createdAt"])}

Schemas == {MakeSchema(t) : t \in TimestampInputs}

ValidationModes == {"strict", "loose", "off"}

\* `timestamps.createdAt` / `timestamps.updatedAt` as a truthy test.
HasTs(timestamps, which) == which \in DOMAIN timestamps.config

(***************************************************************************)
(* Validator derivation.  A zod schema is a syntax tree; ZParse interprets *)
(* it the way zod's safeParse does.                                        *)
(***************************************************************************)
EmailStrings == {"a@b.com"}

\* The strings of the model that zod's url() check takes.
UrlStrings == {"http://a.io"}

HexChars ==
  {"0", "1", "2", "3", "4", "5", "6", "7", "8", "9",
   "a", "b", "c", "d", "e", "f", "A", "B", "C", "D", "E", "F"}

IsHex24(s) == Len(s) = 24 /\ \A i \in 1..Len(s) : SubSeq(s, i, i) \in HexChars

\* isObjectId: an object with a toHexString function, or a string of 24
\* hexadecimal characters.  Of the objects of the model only the native
\* identity has the method.
isObjectId(value) ==
  CASE value.k = "objectId" -> TRUE
    [] value.k = "string" -> IsHex24(value.v)
    [] OTHER -> FALSE

ZOptional(inner) == [z |-> "optional", inner |-> inner]
ZNullable(inner) == [z |-> "nullable", inner |-> inner]
ZDefault(inner, d) == [z |-> "default", inner |-> inner, d |-> d]
ZObject(shape) == [z |-> "object", shape |-> shape]
ZDate == [z |-> "date"]
ZUnknown == [z |-> "unknown"]
ZRecord == [z |-> "record"]
ZString == [z |-> "string", field |-> EmptyDoc]
ZCustom(check) == [z |-> "custom", check |-> check]
ZUnion(options) == [z |-> "union", options |-> options]

StringChecks(field, s) ==
  /\ ("minLength" \in DOMAIN field => Len(s) >= field.minLength)
  /\ ("maxLength" \in DOMAIN field => Len(s) <= field.maxLength)
  /\ ("pattern" \in DOMAIN field => s \in field.pattern)
  /\ (("email" \in DOMAIN field /\ field.email) => s \in EmailStrings)
  /\ (("url" \in DOMAIN field /\ field.url) => s \in UrlStrings)

\* Variant: the field's other string checks narrow the enum.
buildStringSchema_ChecksNarrowEnum(field) ==
  IF "enum" \in DOMAIN field
  THEN [z |-> "enum", values |-> {e \in field.enum : StringChecks(field, e)}]
  ELSE [z |-> "string", field |-> field]

buildStringSchema(field) ==
  IF "enum" \in DOMAIN field
  THEN [z |-> "enum", values |-> field.enum]
  ELSE [z |-> "string", field |-> field]

buildNumberSchema(field) == [z |-> "number", field |-> field]

RECURSIVE fieldToZod(_)

\* `z.record(z.unknown())` without declared properties, else `z.object(shape)`.
buildObjectSchema(field) ==
  IF "properties" \notin DOMAIN field THEN ZRecord
  ELSE ZObject([key \in DOMAIN field.properties |-> fieldToZod(field.properties[key])])

typeBuilders(field) ==
  CASE field.type = "string" -> buildStringSchema(field)
    [] field.type = "number" -> buildNumberSchema(field)
    [] field.type = "boolean" -> [z |-> "boolean"]
    [] field.type = "date" -> ZDate
    [] field.type = "objectId" -> ZUnion(<<ZString, ZCustom("isObjectId")>>)
    [] field.type = "object" -> buildObjectSchema(field)
    [] field.type = "json" -> ZUnknown
    [] OTHER -> ZUnknown

fieldToZod(field) ==
  LET base == typeBuilders(field)
      opt == IF ~field.required THEN ZNullable(ZOptional(base)) ELSE base
  IN IF "default" \in DOMAIN field /\ field.default # Str("auto")
     THEN ZDefault(opt, field.default)
     ELSE opt

zodSchema(s) ==
  LET fieldShape == [f \in DOMAIN s.fields |-> fieldToZod(s.fields[f])]
      ts == s.timestamps
      withCreated ==
        IF ts.enabled /\ HasTs(ts, "createdAt")
        THEN Put(fieldShape, ts.config["createdAt"], ZOptional(ZDate))
        ELSE fieldShape
      withUpdated ==
        IF ts.enabled /\ HasTs(ts, "updatedAt")
        THEN Put(withCreated, ts.config["updatedAt"], ZOptional(ZDate))
        ELSE withCreated
  IN ZObject(withUpdated)

\* Variant: `_id` is left in the shape.
zodCreateSchema_KeepsId(s) ==
  LET fullSchema == zodSchema(s)
      ts == s.timestamps
      removed ==
        (IF ts.enabled /\ HasTs(ts, "createdAt") THEN {ts.config["createdAt"]} ELSE {})
          \cup (IF ts.enabled /\ HasTs(ts, "updatedAt") THEN {ts.config["updatedAt"]} ELSE {})
  IN ZObject(Without(fullSchema.shape, removed))

zodCreateSchema(s) ==
  LET fullSchema == zodSchema(s)
      ts == s.timestamps
      removed ==
        {"_id"}
          \cup (IF ts.enabled /\ HasTs(ts, "createdAt") THEN {ts.config["createdAt"]} ELSE {})
          \cup (IF ts.enabled /\ HasTs(ts, "updatedAt") THEN {ts.config["updatedAt"]} ELSE {})
  IN ZObject(Without(fullSchema.shape, removed))

\* Variant: the create shape is used as it is, without partial().
zodUpdateSchema_NotPartial(s) == zodCreateSchema(s)

\* ZodObject.partial(): every entry of the shape is wrapped in optional().
zodUpdateSchema(s) ==
  LET createSchema == zodCreateSchema(s)
  IN ZObject([f \in DOMAIN createSchema.shape |-> ZOptional(createSchema.shape[f])])

NumberChecks(field, n) ==
  /\ ("min" \in DOMAIN field => n >= field.min)
  /\ ("max" \in DOMAIN field => n <= field.max)

Ok(data) == [success |-> TRUE, data |-> data]
Fail == [success |-> FALSE, data |-> Undefined]

RECURSIVE ZParse(_, _)
ZParse(node, val) ==
  CASE node.z = "string" ->
         IF val.k = "string" /\ StringChecks(node.field, val.v) THEN Ok(val) ELSE Fail
    [] node.z = "number" ->
         IF val.k = "number" /\ NumberChecks(node.field, val.v) THEN Ok(val) ELSE Fail
    [] node.z = "boolean" -> IF val.k = "boolean" THEN Ok(val) ELSE Fail
    [] node.z = "date" -> IF val.k = "date" THEN Ok(val) ELSE Fail
    [] node.z = "enum" ->
         IF val.k = "string" /\ val.v \in node.values THEN Ok(val) ELSE Fail
    [] node.z = "unknown" -> Ok(val)
    [] node.z = "custom" ->
         IF node.check = "isObjectId" /\ isObjectId(val) THEN Ok(val) ELSE Fail
    [] node.z = "union" ->
         IF \E i \in 1..Len(node.options) : ZParse(node.options[i], val).success
         THEN Ok(val) ELSE Fail
    [] node.z = "optional" ->
         IF val = Undefined THEN Ok(Undefined) ELSE ZParse(node.inner, val)
    [] node.z = "nullable" ->
         IF val = Null THEN Ok(Null) ELSE ZParse(node.inner, val)
    [] node.z = "default" ->
         IF val = Undefined THEN ZParse(node.inner, node.d) ELSE ZParse(node.inner, val)
    [] node.z = "object" ->
         IF val.k # "object" THEN Fail
         ELSE LET r == [key \in DOMAIN node.shape |->
                          ZParse(node.shape[key], Get(val.v, key))]
                  kept == {key \in DOMAIN node.shape :
                             key \in DOMAIN val.v \/ r[key].data # Undefined}
              IN IF \A key \in DOMAIN node.shape : r[key].success
                 THEN Ok(Obj([key \in kept |-> r[key].data]))
                 ELSE Fail
    [] node.z = "record" -> IF val.k = "object" THEN Ok(val) ELSE Fail

safeParse(zschema, data) == ZParse(zschema, Obj(data))

(***************************************************************************)
(* State: the contract's bindings (fixed at construction), the clock read  *)
(* by `new Date()`, and the record of the call in progress: its arguments, *)
(* the calls it made on the underlying collection, the console.warn lines  *)
(* it wrote, the validator invocations it made and how it ended.           *)
(***************************************************************************)
VARIABLES validationMode, schema, clock, pc, op, calledAt, calls, warns, validated, outcome,
          callerData

vars ==
  <<validationMode, schema, clock, pc, op, calledAt, calls, warns, validated, outcome,
    callerData>>

(***************************************************************************)
(* State of client composition: the config createClient was called with,   *)
(* what it returned, the connection attempts made (one per factory         *)
(* invocation, or the one of Node.js mode, each with the calls it made on  *)
(* the driver), the contracts constructed, and the last property read from *)
(* a client.                                                               *)
(***************************************************************************)
VARIABLES config, phase, runs, instances, lastGet

cvars == <<config, phase, runs, instances, lastGet>>

NoConfig == [serverless |-> FALSE, syncIndexes |-> FALSE, validation |-> "strict"]

NoGet == [run |-> 0, prop |-> Undefined, result |-> Undefined]

\* No client has been asked for.
NoClient ==
  /\ config = NoConfig
  /\ phase = "none"
  /\ runs = <<>>
  /\ instances = {}
  /\ lastGet = NoGet

(***************************************************************************)
(* State of schema synchronisation (the kit): the arguments of the call of *)
(* syncSchemaIndexes in progress together with the database it found, the *)
(* calls it made on the database, the database afterwards, and how the     *)
(* call ended.                                                             *)
(***************************************************************************)
VARIABLES syncInput, syncCalls, syncDb, syncOutcome

svars == <<syncInput, syncCalls, syncDb, syncOutcome>>

NoDb == [collections |-> {}, indexes |-> EmptyDoc]

NoSyncInput == [schemas |-> <<>>, options |-> EmptyDoc, db |-> NoDb, failAt |-> 0]

\* No synchronisation has been asked for.
NoSync ==
  /\ syncInput = NoSyncInput
  /\ syncCalls = <<>>
  /\ syncDb = NoDb
  /\ syncOutcome = [kind |-> "none", value |-> Undefined]

\* A field builder in the hands of a schema author: its class, its private
\* definition, and the last method called on it with the definition it found.
VARIABLES builderClass, definition, lastCall

bvars == <<builderClass, definition, lastCall>>

NoCall == [method |-> "none", before |-> EmptyDoc]

NoBuilder ==
  /\ builderClass = "none"
  /\ definition = EmptyDoc
  /\ lastCall = NoCall

NoOp ==
  [name |-> "none", where |-> EmptyDoc, id |-> Undefined, data |-> EmptyDoc,
   options |-> EmptyDoc, now |-> 0, reply |-> [kind |-> "none", value |-> Undefined]]

NoOutcome == [kind |-> "none", value |-> Undefined]

Err(name) == [k |-> "error", v |-> name]
Throw(e) == [kind |-> "throw", value |-> e]
Return(val) == [kind |-> "ok", value |-> val]

Call(method, args) == [method |-> method, args |-> args, cursor |-> <<>>]

NoValidation == [threw |-> FALSE, warned |-> 0, invoked |-> 0]

\* The caller's `data` object after a call that wrote nothing into it.
Unmodified == [k |-> "unmodified", v |-> 0]

Effect(cs, v, out) ==
  [calls |-> cs, warns |-> v.warned, validated |-> v.invoked, outcome |-> out,
   callerData |-> Unmodified]

(***************************************************************************)
(* CollectionProxy: private helpers.                                       *)
(***************************************************************************)
\* Variant: a failed validation in strict mode is only reported, as in loose mode.
validateWith_StrictOnlyWarns(zschema, data) ==
  IF validationMode = "off" THEN NoValidation
  ELSE LET result == safeParse(zschema, data)
       IN IF ~result.success
          THEN [threw |-> FALSE, warned |-> 1, invoked |-> 1]
          ELSE [threw |-> FALSE, warned |-> 0, invoked |-> 1]

\* Variant: the mode `off` is not tested before the validator is run.
validateWith_IgnoresOff(zschema, data) ==
  LET result == safeParse(zschema, data)
  IN IF ~result.success /\ validationMode = "strict"
     THEN [threw |-> TRUE, warned |-> 0, invoked |-> 1]
     ELSE [threw |-> FALSE, warned |-> 0, invoked |-> 1]

\* Variant: a schema whose own validation setting is enabled decides the mode.
validateWith_SchemaMode(zschema, data) ==
  LET mode == IF schema.validation.enabled THEN schema.validation.mode ELSE validationMode
  IN IF mode = "off" THEN NoValidation
     ELSE LET result == safeParse(zschema, data)
          IN IF ~result.success
             THEN IF mode = "strict"
                  THEN [threw |-> TRUE, warned |-> 0, invoked |-> 1]
                  ELSE [threw |-> FALSE, warned |-> 1, invoked |-> 1]
             ELSE [threw |-> FALSE, warned |-> 0, invoked |-> 1]

validateWith(zschema, data) ==
  IF validationMode = "off" THEN NoValidation
  ELSE LET result == safeParse(zschema, data)
       IN IF ~result.success
          THEN IF validationMode = "strict"
               THEN [threw |-> TRUE, warned |-> 0, invoked |-> 1]
               ELSE [threw |-> FALSE, warned |-> 1, invoked |-> 1]
          ELSE [threw |-> FALSE, warned |-> 0, invoked |-> 1]

validateCreate(data) == validateWith(zodCreateSchema(schema), data)

validateUpdate(data) == validateWith(zodUpdateSchema(schema), data)

\* Variant: the create-timestamp is never stamped, whatever the operation.
applyTimestamps_UpdatedOnly(data, operation, enabled, now) ==
  IF enabled = Bool(FALSE) \/ ~schema.timestamps.enabled THEN data
  ELSE IF HasTs(schema.timestamps, "updatedAt")
       THEN Put(data, schema.timestamps.config["updatedAt"], DateAt(now))
       ELSE data

applyTimestamps(data, operation, enabled, now) ==
  IF enabled = Bool(FALSE) \/ ~schema.timestamps.enabled THEN data
  ELSE LET timestamps == schema.timestamps
           withCreated ==
             IF operation = "create" /\ HasTs(timestamps, "createdAt")
             THEN Put(data, timestamps.config["createdAt"], DateAt(now))
             ELSE data
       IN IF HasTs(timestamps, "updatedAt")
          THEN Put(withCreated, timestamps.config["updatedAt"], DateAt(now))
          ELSE withCreated

\* parseObjectId: a string goes through `new ObjectId(id)`, which throws on a
\* string that is not an identity; a native identity is returned as it is.
parseObjectId(id) ==
  IF id.k = "string"
  THEN IF IsHex24(id.v)
       THEN [threw |-> FALSE, value |-> NativeId(id.v)]
       ELSE [threw |-> TRUE, value |-> Undefined]
  ELSE [threw |-> FALSE, value |-> id]

StartsWithDollar(key) == Len(key) >= 1 /\ SubSeq(key, 1, 1) = "$"

\* Variant: the data counts as operator form only when every key is an operator.
HasOperators_EveryKey(data) ==
  data # EmptyDoc /\ \A key \in DOMAIN data : StartsWithDollar(key)

HasOperators(data) == \E key \in DOMAIN data : StartsWithDollar(key)

\* Variant: the timestamp is written without testing whether the caller set it.
MergeInto_Overwrites(update, operator, name, now) ==
  LET current == IF Truthy(Get(update, operator)) THEN update[operator].v ELSE EmptyDoc
  IN Put(update, operator, Obj(Put(current, name, DateAt(now))))

\* `update.$x = update.$x || {}` followed by `if (!(name in update.$x))
\* update.$x[name] = now`.
MergeInto(update, operator, name, now) ==
  LET current == IF Truthy(Get(update, operator)) THEN update[operator].v ELSE EmptyDoc
      merged == IF name \in DOMAIN current THEN current ELSE Put(current, name, DateAt(now))
  IN Put(update, operator, Obj(merged))

\* Variant: the create-timestamp is put in $setOnInsert whether or not the call
\* asks for an upsert.
applyUpdateTimestamps_IgnoresUpsert(data, hasOperators, options, now) ==
  IF ~schema.timestamps.enabled
  THEN IF hasOperators THEN data ELSE [x \in {"$set"} |-> Obj(data)]
  ELSE LET timestamps == schema.timestamps
           update0 == IF hasOperators THEN data ELSE [x \in {"$set"} |-> Obj(data)]
           update1 ==
             IF HasTs(timestamps, "updatedAt")
             THEN MergeInto(update0, "$set", timestamps.config["updatedAt"], now)
             ELSE update0
       IN IF HasTs(timestamps, "createdAt")
          THEN MergeInto(update1, "$setOnInsert", timestamps.config["createdAt"], now)
          ELSE update1

applyUpdateTimestamps(data, hasOperators, options, now) ==
  IF ~schema.timestamps.enabled
  THEN IF hasOperators THEN data ELSE [x \in {"$set"} |-> Obj(data)]
  ELSE LET timestamps == schema.timestamps
           update0 == IF hasOperators THEN data ELSE [x \in {"$set"} |-> Obj(data)]
           update1 ==
             IF HasTs(timestamps, "updatedAt")
             THEN MergeInto(update0, "$set", timestamps.config["updatedAt"], now)
             ELSE update0
       IN IF Truthy(Get(options, "upsert")) /\ HasTs(timestamps, "createdAt")
          THEN MergeInto(update1, "$setOnInsert", timestamps.config["createdAt"], now)
          ELSE update1

\* The objects applyUpdateTimestamps works on, by reference: `data` is the
\* caller's object, `data.<key>` the sub-map it holds under <key>, `update`
\* and `update.<operator>` the objects the function creates.
Ref(r) == [k |-> "ref", v |-> r]

HeapOf(data) ==
  LET subMaps == {key \in DOMAIN data : data[key].k = "object"}
      refs == {"data"} \cup {"data." \o key : key \in subMaps}
  IN [r \in refs |->
        IF r = "data"
        THEN [key \in DOMAIN data |->
                IF key \in subMaps THEN Ref("data." \o key) ELSE data[key]]
        ELSE data[SubSeq(r, 6, Len(r))].v]

\* The document an object stands for, its sub-maps read through.
Deref(heap, root) ==
  [key \in DOMAIN heap[root] |->
     IF heap[root][key].k = "ref" THEN Obj(heap[heap[root][key].v]) ELSE heap[root][key]]

\* `update[operator] = update[operator] || {}`, then the assignment of `now`
\* under `name` unless the sub-map has the key.
StampInPlace(heap, operator, name, now) ==
  LET found == Truthy(Get(heap["update"], operator))
      target == IF found THEN heap["update"][operator].v ELSE "update." \o operator
      heap1 == IF found THEN heap
               ELSE Put(Put(heap, target, EmptyDoc),
                        "update", Put(heap["update"], operator, Ref(target)))
  IN IF name \in DOMAIN heap1[target] THEN heap1
     ELSE Put(heap1, target, Put(heap1[target], name, DateAt(now)))

\* applyUpdateTimestamps on the object graph: the update it returns and the
\* caller's `data` as it is afterwards.
applyUpdateTimestampsInPlace(data, hasOperators, options, now) ==
  LET heap0 == HeapOf(data)
      result(heap, root) == [update |-> Deref(heap, root), data |-> Deref(heap, "data")]
  IN IF ~schema.timestamps.enabled
     THEN IF hasOperators THEN result(heap0, "data")
          ELSE result(Put(heap0, "update", [x \in {"$set"} |-> Ref("data")]), "update")
     ELSE LET timestamps == schema.timestamps
              heap1 == IF hasOperators THEN Put(heap0, "update", heap0["data"])
                       ELSE Put(Put(heap0, "update.$set", heap0["data"]),
                                "update", [x \in {"$set"} |-> Ref("update.$set")])
              heap2 == IF HasTs(timestamps, "updatedAt")
                       THEN StampInPlace(heap1, "$set", timestamps.config["updatedAt"], now)
                       ELSE heap1
              heap3 == IF Truthy(Get(options, "upsert")) /\ HasTs(timestamps, "createdAt")
                       THEN StampInPlace(heap2, "$setOnInsert",
                                         timestamps.config["createdAt"], now)
                       ELSE heap2
          IN result(heap3, "update")

(***************************************************************************)
(* CollectionProxy: the public operations.  `reply` is what the underlying *)
(* call answers (a result or an error); `now` is what `new Date()` reads.  *)
(***************************************************************************)
create(data, options, now, reply) ==
  LET v == validateCreate(data)
  IN IF v.threw THEN Effect(<<>>, v, Throw(Err("ZodError")))
     ELSE LET doc == applyTimestamps(data, "create", Get(options, "timestamps"), now)
              mongoOptions == Without(options, {"timestamps"})
          IN Effect(<<Call("insertOne", <<doc, mongoOptions>>)>>, v, reply)

\* Variant: only the first element of the batch is validated.
validateItems_FirstOnly(items) ==
  IF items = <<>> THEN NoValidation ELSE validateCreate(Head(items))

RECURSIVE validateItems(_)
validateItems(items) ==
  IF items = <<>> THEN NoValidation
  ELSE LET h == validateCreate(Head(items))
       IN IF h.threw THEN h
          ELSE LET t == validateItems(Tail(items))
               IN [threw |-> t.threw, warned |-> h.warned + t.warned,
                   invoked |-> h.invoked + t.invoked]

\* Variant: in loose mode the elements that failed validation are left out of
\* the batch.
createMany_DropsInvalid(data, options, now, reply) ==
  LET v == validateItems(data)
      kept == SelectSeq(data, LAMBDA d : validationMode = "off" \/ validateCreate(d).warned = 0)
  IN IF v.threw THEN Effect(<<>>, v, Throw(Err("ZodError")))
     ELSE LET docs == [i \in 1..Len(kept) |->
                         applyTimestamps(kept[i], "create", Get(options, "timestamps"), now)]
              mongoOptions == Without(options, {"timestamps"})
          IN Effect(<<Call("insertMany", <<docs, mongoOptions>>)>>, v, reply)

createMany(data, options, now, reply) ==
  LET v == validateItems(data)
  IN IF v.threw THEN Effect(<<>>, v, Throw(Err("ZodError")))
     ELSE LET docs == [i \in 1..Len(data) |->
                         applyTimestamps(data[i], "create", Get(options, "timestamps"), now)]
              mongoOptions == Without(options, {"timestamps"})
          IN Effect(<<Call("insertMany", <<docs, mongoOptions>>)>>, v, reply)

updateWith(method, where, data, options, now, reply) ==
  LET hasOperators == HasOperators(data)
      v == IF ~hasOperators THEN validateUpdate(data) ELSE NoValidation
  IN IF v.threw THEN Effect(<<>>, v, Throw(Err("ZodError")))
     ELSE LET update == applyUpdateTimestamps(data, hasOperators, options, now)
              after == applyUpdateTimestampsInPlace(data, hasOperators, options, now).data
              mongoOptions == Without(options, {"timestamps"})
          IN [Effect(<<Call(method, <<where, update, mongoOptions>>)>>, v, reply)
                EXCEPT !.callerData = Obj(after)]

updateOne(where, data, options, now, reply) ==
  updateWith("updateOne", where, data, options, now, reply)

updateMany(where, data, options, now, reply) ==
  updateWith("updateMany", where, data, options, now, reply)

\* Variant: the data is validated before the id is coerced.
updateById_ValidatesFirst(id, data, options, now, reply) ==
  LET objectId == parseObjectId(id)
      v == IF ~HasOperators(data) THEN validateUpdate(data) ELSE NoValidation
  IN IF v.threw THEN Effect(<<>>, v, Throw(Err("ZodError")))
     ELSE IF objectId.threw THEN Effect(<<>>, v, Throw(Err("BSONError")))
     ELSE updateOne([x \in {"_id"} |-> objectId.value], data, options, now, reply)

updateById(id, data, options, now, reply) ==
  LET objectId == parseObjectId(id)
  IN IF objectId.threw THEN Effect(<<>>, NoValidation, Throw(Err("BSONError")))
     ELSE updateOne([x \in {"_id"} |-> objectId.value], data, options, now, reply)

\* The options a read builds for the driver: session, projection and sort.
findOne(where, options, reply) ==
  LET withSession ==
        IF Truthy(Get(options, "session"))
        THEN [x \in {"session"} |-> options["session"]] ELSE EmptyDoc
      withSelect ==
        IF Truthy(Get(options, "select"))
        THEN Put(withSession, "projection", options["select"]) ELSE withSession
      mongoOptions ==
        IF Truthy(Get(options, "sort"))
        THEN Put(withSelect, "sort", options["sort"]) ELSE withSelect
  IN Effect(<<Call("findOne", <<where, mongoOptions>>)>>, NoValidation, reply)

CursorStep(cursor, options, key, method, onlyDefined) ==
  IF (IF onlyDefined THEN Get(options, key) # Undefined ELSE Truthy(Get(options, key)))
  THEN Append(cursor, <<method, options[key]>>)
  ELSE cursor

\* Variant: find() is called without the options object.
findMany_DropsSession(where, options, reply) ==
  LET c1 == CursorStep(<<>>, options, "select", "project", FALSE)
      c2 == CursorStep(c1, options, "sort", "sort", FALSE)
      c3 == CursorStep(c2, options, "skip", "skip", TRUE)
      c4 == CursorStep(c3, options, "limit", "limit", TRUE)
  IN Effect(<<[method |-> "find", args |-> <<where, EmptyDoc>>,
               cursor |-> Append(c4, <<"toArray", Undefined>>)]>>,
            NoValidation, reply)

findMany(where, options, reply) ==
  LET mongoOptions ==
        IF Truthy(Get(options, "session"))
        THEN [x \in {"session"} |-> options["session"]] ELSE EmptyDoc
      c1 == CursorStep(<<>>, options, "select", "project", FALSE)
      c2 == CursorStep(c1, options, "sort", "sort", FALSE)
      c3 == CursorStep(c2, options, "skip", "skip", TRUE)
      c4 == CursorStep(c3, options, "limit", "limit", TRUE)
  IN Effect(<<[method |-> "find", args |-> <<where, mongoOptions>>,
               cursor |-> Append(c4, <<"toArray", Undefined>>)]>>,
            NoValidation, reply)

findById(id, options, reply) ==
  LET objectId == parseObjectId(id)
      mongoOptions ==
        IF Truthy(Get(options, "select"))
        THEN Without(Put(options, "projection", options["select"]), {"select"})
        ELSE options
  IN IF objectId.threw THEN Effect(<<>>, NoValidation, Throw(Err("BSONError")))
     ELSE Effect(<<Call("findOne", <<[x \in {"_id"} |-> objectId.value], mongoOptions>>)>>,
                 NoValidation, reply)

deleteOne(where, options, reply) ==
  LET mongoOptions == Without(options, {"soft"})
  IN Effect(<<Call("deleteOne", <<where, mongoOptions>>)>>, NoValidation, reply)

deleteMany(where, options, reply) ==
  LET mongoOptions == Without(options, {"soft"})
  IN Effect(<<Call("deleteMany", <<where, mongoOptions>>)>>, NoValidation, reply)

deleteById(id, options, reply) ==
  LET objectId == parseObjectId(id)
  IN IF objectId.threw THEN Effect(<<>>, NoValidation, Throw(Err("BSONError")))
     ELSE deleteOne([x \in {"_id"} |-> objectId.value], options, reply)

count(where, options, reply) ==
  Effect(<<Call("countDocuments", <<where, options>>)>>, NoValidation, reply)

\* Variant: the spread comes last, so a caller's limit replaces the cap.
exists_CallerLimitWins(where, options, reply) ==
  LET capped == IF "limit" \in DOMAIN options THEN options ELSE Put(options, "limit", Num(1))
  IN Effect(<<Call("countDocuments", <<where, capped>>)>>, NoValidation,
            IF reply.kind = "ok" THEN Return(Bool(reply.value.v > 0)) ELSE reply)

\* Variant: an error of countDocuments is caught and answered as "no match".
exists_SwallowsError(where, options, reply) ==
  LET capped == Put(options, "limit", Num(1))
  IN Effect(<<Call("countDocuments", <<where, capped>>)>>, NoValidation,
            IF reply.kind = "ok" THEN Return(Bool(reply.value.v > 0))
            ELSE Return(Bool(FALSE)))

\* `{ ...options, limit: 1 }`, then `count > 0`.
exists(where, options, reply) ==
  LET capped == Put(options, "limit", Num(1))
  IN Effect(<<Call("countDocuments", <<where, capped>>)>>, NoValidation,
            IF reply.kind = "ok" THEN Return(Bool(reply.value.v > 0)) ELSE reply)

aggregate(pipeline, options, reply) ==
  Effect(<<[method |-> "aggregate", args |-> <<pipeline, options>>,
            cursor |-> <<<<"toArray", Undefined>>>>]>>,
         NoValidation, reply)

(***************************************************************************)
(* The arguments callers pass and the answers the underlying collection    *)
(* gives.                                                                  *)
(***************************************************************************)
PastDate == DateAt(0 - 1)

\* A document over the given keys; a key whose value is undefined is absent.
MkDoc(kv) == [key \in {x \in DOMAIN kv : kv[x] # Undefined} |-> kv[key]]

PlainDocs ==
  {MkDoc([email |-> e, age |-> a, updatedAt |-> u, createdAt |-> c]) :
     e \in {Undefined, Str("a@b.com"), Str("not-an-email"), Num(123)},
     a \in {Undefined, Num(30), Num(200)},
     u \in {Undefined, PastDate},
     c \in {Undefined, PastDate}}

OperatorDocs ==
  {d \in {MkDoc([x \in {"$set", "$inc", "$setOnInsert", "email"} |->
                   CASE x = "$set" -> s [] x = "$inc" -> i
                     [] x = "$setOnInsert" -> o [] x = "email" -> e]) :
            s \in {Undefined, Obj(EmptyDoc), Obj([age |-> Num(31)]),
                   Obj([updatedAt |-> PastDate]), Obj([createdAt |-> PastDate])},
            i \in {Undefined, Obj([age |-> Num(1)])},
            o \in {Undefined, Obj([createdAt |-> PastDate]), Obj([email |-> Str("a@b.com")])},
            e \in {Undefined, Num(123)}} :
     DOMAIN d \cap {"$set", "$inc", "$setOnInsert"} # {}}

UpdateDocs == PlainDocs \cup OperatorDocs

ByIdDocs == {d \in UpdateDocs : DOMAIN d \subseteq {"email", "updatedAt", "$set"}}

BatchDocs ==
  {[email |-> Str("a@b.com")], [email |-> Num(123)], [age |-> Num(30)],
   [email |-> Str("a@b.com"), age |-> Num(200), createdAt |-> PastDate]}

Batches == UNION {[1..n -> BatchDocs] : n \in 0..MaxBatch}

Filters == {EmptyDoc, [email |-> Str("a@b.com")]}

UpdateFilters == {[email |-> Str("a@b.com")]}

Ids == {NativeId("507f1f77bcf86cd799439011"), Str("507f1f77bcf86cd799439011"), Str("not-an-id")}

Sessions == {Undefined, Session("s1")}

CreateOptionsSet ==
  {MkDoc([timestamps |-> t, session |-> s]) :
     t \in {Undefined, Bool(TRUE), Bool(FALSE)}, s \in Sessions}

UpdateOptionsSet ==
  {MkDoc([upsert |-> u, timestamps |-> t, session |-> s]) :
     u \in {Undefined, Bool(TRUE)}, t \in {Undefined, Bool(FALSE)}, s \in Sessions}

FindOptionsSet ==
  {MkDoc([select |-> p, limit |-> l, session |-> s, collation |-> c]) :
     p \in {Undefined, Obj([email |-> Bool(TRUE)])}, l \in {Undefined, Num(0), Num(5)},
     s \in Sessions, c \in {Undefined, Obj([locale |-> Str("en")])}}

DeleteOptionsSet ==
  {MkDoc([soft |-> f, session |-> s]) : f \in {Undefined, Bool(TRUE)}, s \in Sessions}

CountOptionsSet ==
  {MkDoc([limit |-> l, skip |-> k, session |-> s]) :
     l \in {Undefined, Num(0), Num(5)}, k \in {Undefined, Num(1)}, s \in Sessions}

Pipelines == {<<>>, <<[x \in {"$match"} |-> Obj([age |-> Num(30)])]>>}

StoreError == Throw(Err("MongoError"))

WriteReplies == {Return(Str("ack")), StoreError}

FindOneReplies == {Return(Null), Return(Obj([email |-> Str("a@b.com")])), StoreError}

ArrayReplies == {Return(Obj(EmptyDoc)), StoreError}

CountReplies == {Return(Num(n)) : n \in 0..MaxCount} \cup {StoreError}

\* What `new Date()` can read during a call issued at `clock`.
Nows == {t \in clock..(clock + MaxDrift) : t <= MaxClock}

OpRec(name, where, id, data, options, now, reply) ==
  [name |-> name, where |-> where, id |-> id, data |-> data, options |-> options,
   now |-> now, reply |-> reply]

Init ==
  /\ validationMode \in ValidationModes
  /\ schema \in Schemas
  /\ clock = 0
  /\ pc = "idle"
  /\ op = NoOp
  /\ calledAt = 0
  /\ calls = <<>>
  /\ warns = 0
  /\ validated = 0
  /\ outcome = NoOutcome
  /\ callerData = EmptyDoc
  /\ NoClient
  /\ NoSync
  /\ NoBuilder

\* The clock advances on its own, also while a call is being served.
Tick ==
  /\ clock < MaxClock
  /\ clock' = clock + 1
  /\ UNCHANGED <<validationMode, schema, pc, op, calledAt, calls, warns, validated, outcome,
                 callerData>>
  /\ UNCHANGED cvars
  /\ UNCHANGED svars
  /\ UNCHANGED bvars

\* A call is issued at `clock` and its body reads the clock at `now`.
Serve(opRec, eff) ==
  /\ pc' = "returned"
  /\ op' = opRec
  /\ calledAt' = clock
  /\ clock' = opRec.now
  /\ calls' = eff.calls
  /\ warns' = eff.warns
  /\ validated' = eff.validated
  /\ outcome' = eff.outcome
  /\ callerData' = IF eff.callerData = Unmodified THEN opRec.data ELSE eff.callerData.v
  /\ UNCHANGED <<validationMode, schema>>
  /\ UNCHANGED cvars
  /\ UNCHANGED svars
  /\ UNCHANGED bvars

\* The caller takes the result; the contract keeps nothing of the call.
Done ==
  /\ pc = "returned"
  /\ pc' = "idle"
  /\ op' = NoOp
  /\ calledAt' = 0
  /\ calls' = <<>>
  /\ warns' = 0
  /\ validated' = 0
  /\ outcome' = NoOutcome
  /\ callerData' = EmptyDoc
  /\ UNCHANGED <<validationMode, schema, clock>>
  /\ UNCHANGED cvars
  /\ UNCHANGED svars
  /\ UNCHANGED bvars

Create ==
  /\ pc = "idle"
  /\ \E data \in PlainDocs, options \in CreateOptionsSet, now \in Nows, reply \in WriteReplies :
       Serve(OpRec("create", EmptyDoc, Undefined, data, options, now, reply),
             create(data, options, now, reply))

CreateMany ==
  /\ pc = "idle"
  /\ \E data \in Batches, options \in CreateOptionsSet, now \in Nows, reply \in WriteReplies :
       Serve(OpRec("createMany", EmptyDoc, Undefined, data, options, now, reply),
             createMany(data, options, now, reply))

UpdateOne ==
  /\ pc = "idle"
  /\ \E where \in UpdateFilters, data \in UpdateDocs, options \in UpdateOptionsSet,
        now \in Nows, reply \in WriteReplies :
       Serve(OpRec("updateOne", where, Undefined, data, options, now, reply),
             updateOne(where, data, options, now, reply))

UpdateMany ==
  /\ pc = "idle"
  /\ \E where \in UpdateFilters, data \in UpdateDocs, options \in UpdateOptionsSet,
        now \in Nows, reply \in WriteReplies :
       Serve(OpRec("updateMany", where, Undefined, data, options, now, reply),
             updateMany(where, data, options, now, reply))

UpdateById ==
  /\ pc = "idle"
  /\ \E id \in Ids, data \in ByIdDocs, options \in UpdateOptionsSet,
        now \in Nows, reply \in WriteReplies :
       Serve(OpRec("updateById", EmptyDoc, id, data, options, now, reply),
             updateById(id, data, options, now, reply))

FindOne ==
  /\ pc = "idle"
  /\ \E where \in Filters, options \in FindOptionsSet, reply \in FindOneReplies :
       Serve(OpRec("findOne", where, Undefined, EmptyDoc, options, clock, reply),
             findOne(where, options, reply))

FindMany ==
  /\ pc = "idle"
  /\ \E where \in Filters, options \in FindOptionsSet, reply \in ArrayReplies :
       Serve(OpRec("findMany", where, Undefined, EmptyDoc, options, clock, reply),
             findMany(where, options, reply))

FindById ==
  /\ pc = "idle"
  /\ \E id \in Ids, options \in FindOptionsSet, reply \in FindOneReplies :
       Serve(OpRec("findById", EmptyDoc, id, EmptyDoc, options, clock, reply),
             findById(id, options, reply))

DeleteOne ==
  /\ pc = "idle"
  /\ \E where \in Filters, options \in DeleteOptionsSet, reply \in WriteReplies :
       Serve(OpRec("deleteOne", where, Undefined, EmptyDoc, options, clock, reply),
             deleteOne(where, options, reply))

DeleteMany ==
  /\ pc = "idle"
  /\ \E where \in Filters, options \in DeleteOptionsSet, reply \in WriteReplies :
       Serve(OpRec("deleteMany", where, Undefined, EmptyDoc, options, clock, reply),
             deleteMany(where, options, reply))

DeleteById ==
  /\ pc = "idle"
  /\ \E id \in Ids, options \in DeleteOptionsSet, reply \in WriteReplies :
       Serve(OpRec("deleteById", EmptyDoc, id, EmptyDoc, options, clock, reply),
             deleteById(id, options, reply))

Count ==
  /\ pc = "idle"
  /\ \E where \in Filters, options \in CountOptionsSet, reply \in CountReplies :
       Serve(OpRec("count", where, Undefined, EmptyDoc, options, clock, reply),
             count(where, options, reply))

Exists ==
  /\ pc = "idle"
  /\ \E where \in Filters, options \in CountOptionsSet, reply \in CountReplies :
       Serve(OpRec("exists", where, Undefined, EmptyDoc, options, clock, reply),
             exists(where, options, reply))

Aggregate ==
  /\ pc = "idle"
  /\ \E pipeline \in Pipelines, options \in DeleteOptionsSet, reply \in ArrayReplies :
       Serve(OpRec("aggregate", EmptyDoc, Undefined, pipeline, options, clock, reply),
             aggregate(pipeline, options, reply))

Next ==
  \/ Tick
  \/ Done
  \/ Create
  \/ CreateMany
  \/ UpdateOne
  \/ UpdateMany
  \/ UpdateById
  \/ FindOne
  \/ FindMany
  \/ FindById
  \/ DeleteOne
  \/ DeleteMany
  \/ DeleteById
  \/ Count
  \/ Exists
  \/ Aggregate

Spec == Init /\ [][Next]_vars

(***************************************************************************)
(* Properties.                                                             *)
(***************************************************************************)
Returned == pc = "returned"

UpdateNames == {"updateOne", "updateMany", "updateById"}

\* The resolved timestamp field names of the contract's schema.
TsNames ==
  IF schema.timestamps.enabled
  THEN {schema.timestamps.config[w] : w \in DOMAIN schema.timestamps.config}
  ELSE {}

CreateInvalid(d) == ~safeParse(zodCreateSchema(schema), d).success

UpdateInvalid(d) == ~safeParse(zodUpdateSchema(schema), d).success

\* The number of elements of a batch that fail the create validator.
RECURSIVE InvalidCount(_)
InvalidCount(items) ==
  IF items = <<>> THEN 0
  ELSE (IF CreateInvalid(Head(items)) THEN 1 ELSE 0) + InvalidCount(Tail(items))

\* The call reached its validation step (updateById coerces the id first).
IdCoerced == op.name = "updateById" => ~parseObjectId(op.id).threw

\* The two forms of update data, by the sigil of its top-level keys.
OperatorForm(d) == \E key \in DOMAIN d : SubSeq(key, 1, 1) = "$"

PlainUpdate == op.name \in UpdateNames /\ ~OperatorForm(op.data) /\ IdCoerced

OperatorUpdate == op.name \in UpdateNames /\ OperatorForm(op.data) /\ IdCoerced

HasUpdated == schema.timestamps.enabled /\ "updatedAt" \in DOMAIN schema.timestamps.config

HasCreated == schema.timestamps.enabled /\ "createdAt" \in DOMAIN schema.timestamps.config

UName == schema.timestamps.config["updatedAt"]

CName == schema.timestamps.config["createdAt"]

Upsert == Truthy(Get(op.options, "upsert"))

\* The update document handed to updateOne/updateMany.
SentUpdate == calls[1].args[2]

\* `d` with `name` set to the instant the call read, unless `d` already has it.
Stamped(d, name) == IF name \in DOMAIN d THEN d ELSE Put(d, name, DateAt(op.now))

\* The sub-map the caller gave under `operator` ({} when it gave none).
CallerMap(operator) ==
  IF OperatorForm(op.data) /\ operator \in DOMAIN op.data THEN op.data[operator].v
  ELSE EmptyDoc

\* The caller's data in operator shape, with the update-timestamp merged into
\* $set when the schema has one.
WithUpdatedAt ==
  LET base == IF OperatorForm(op.data) THEN op.data ELSE [x \in {"$set"} |-> Obj(op.data)]
  IN IF HasUpdated
     THEN Put(base, "$set", Obj(Stamped(IF "$set" \in DOMAIN base THEN base["$set"].v
                                        ELSE EmptyDoc, UName)))
     ELSE base

\* ... and with the create-timestamp merged into $setOnInsert on an upsert.
WithCreatedAtOnUpsert ==
  IF Upsert /\ HasCreated
  THEN Put(WithUpdatedAt, "$setOnInsert", Obj(Stamped(CallerMap("$setOnInsert"), CName)))
  ELSE WithUpdatedAt

\* The data of the call in progress fails the validator the call applies to it.
DataFailsValidation ==
  \/ op.name = "create" /\ CreateInvalid(op.data)
  \/ op.name = "createMany" /\ InvalidCount(op.data) > 0
  \/ PlainUpdate /\ UpdateInvalid(op.data)

\* The document's own fields are carried unchanged; only timestamp fields of
\* the schema may have been stamped over or added.
Carries(sent, data) ==
  /\ DOMAIN data \subseteq DOMAIN sent
  /\ \A key \in DOMAIN sent :
       key \in TsNames \/ (key \in DOMAIN data /\ sent[key] = data[key])

\* C1: in strict mode, when the data of create, createMany or a plain-form
\* update fails its validator, the call ends with the validation error and makes
\* no call on the underlying collection.
C1_StrictFailureReachesNoStore ==
  (Returned /\ validationMode = "strict" /\ DataFailsValidation)
    => (outcome = Throw(Err("ZodError")) /\ calls = <<>>)

C1_Witness ==
  /\ Returned /\ validationMode = "strict" /\ op.name = "updateById"
  /\ DataFailsValidation
  /\ outcome = Throw(Err("ZodError")) /\ calls = <<>>

\* C2: in loose mode every failed validation writes exactly one diagnostic, and
\* the operation still makes exactly one underlying write that carries the
\* caller's data as given (every element, in order, for createMany) and ends as
\* the underlying call ended.
C2_LooseWarnsAndProceeds ==
  (Returned /\ validationMode = "loose"
     /\ (op.name \in {"create", "createMany"} \/ PlainUpdate))
    => /\ warns = (CASE op.name = "create" -> IF CreateInvalid(op.data) THEN 1 ELSE 0
                     [] op.name = "createMany" -> InvalidCount(op.data)
                     [] OTHER -> IF UpdateInvalid(op.data) THEN 1 ELSE 0)
       /\ Len(calls) = 1
       /\ outcome = op.reply
       /\ CASE op.name = "create" ->
                 calls[1].method = "insertOne" /\ Carries(calls[1].args[1], op.data)
            [] op.name = "createMany" ->
                 /\ calls[1].method = "insertMany"
                 /\ Len(calls[1].args[1]) = Len(op.data)
                 /\ \A i \in 1..Len(op.data) : Carries(calls[1].args[1][i], op.data[i])
            [] OTHER ->
                 /\ calls[1].method = (IF op.name = "updateMany" THEN "updateMany" ELSE "updateOne")
                 /\ Carries(calls[1].args[2]["$set"].v, op.data)

C2_Witness ==
  /\ Returned /\ validationMode = "loose" /\ op.name = "createMany"
  /\ Len(op.data) = 2 /\ InvalidCount(op.data) = 2 /\ warns = 2
  /\ Len(calls) = 1 /\ outcome = Return(Str("ack"))

\* C8: createMany validates every element before the batch insert; in strict
\* mode one invalid element, at any position, means insertMany is never called.
C8_BatchValidatedBeforeInsert ==
  (Returned /\ op.name = "createMany")
    => /\ (validationMode = "strict" /\ InvalidCount(op.data) > 0) => calls = <<>>
       /\ (validationMode # "off" /\ calls # <<>>) => validated = Len(op.data)

C8_Witness ==
  /\ Returned /\ op.name = "createMany" /\ validationMode = "strict"
  /\ Len(op.data) = 2 /\ ~CreateInvalid(op.data[1]) /\ CreateInvalid(op.data[2])
  /\ calls = <<>> /\ validated = 2

\* C9: a validator is invoked only by create, createMany and plain-form updates,
\* and only when the mode is not off; reads, deletes, count, exists and aggregate
\* never invoke one.
C9_ValidatorOnlyOnWrites ==
  (Returned /\ validated > 0)
    => /\ validationMode # "off"
       /\ (op.name \in {"create", "createMany"} \/ PlainUpdate)

C9_Witness ==
  /\ Returned /\ validationMode = "off" /\ op.name = "create"
  /\ CreateInvalid(op.data) /\ validated = 0 /\ Len(calls) = 1

\* C10: exists issues one count request whose limit is exactly 1, whatever the
\* caller's options, keeps the caller's other options, and returns true exactly
\* when the returned count is greater than zero.
C10_ExistsCapsAtOne ==
  (Returned /\ op.name = "exists")
    => /\ Len(calls) = 1
       /\ calls[1].method = "countDocuments"
       /\ calls[1].args[1] = op.where
       /\ calls[1].args[2]["limit"] = Num(1)
       /\ Without(calls[1].args[2], {"limit"}) = Without(op.options, {"limit"})
       /\ (op.reply.kind = "ok" => outcome = Return(Bool(op.reply.value.v > 0)))

C10_Witness ==
  /\ Returned /\ op.name = "exists"
  /\ Get(op.options, "limit") = Num(5)
  /\ op.reply = Return(Num(2)) /\ outcome = Return(Bool(TRUE))

\* C3 as stated: for a plain-form update on a schema with an update-timestamp
\* field, the update sent downstream is exactly {$set: data} plus that field set
\* to now iff data does not already contain it.
C3_PlainUpdateIsExactlySet ==
  (Returned /\ PlainUpdate /\ HasUpdated /\ calls # <<>>)
    => SentUpdate = [x \in {"$set"} |-> Obj(Stamped(op.data, UName))]

\* C3 as amended: the same, plus `$setOnInsert: {createdAt-field: now}` when the
\* call asks for an upsert and the schema has a create-timestamp field.
C3_PlainUpdateIsSetPlusUpsertStamp ==
  (Returned /\ PlainUpdate /\ HasUpdated /\ calls # <<>>)
    => /\ Len(calls) = 1
       /\ SentUpdate =
            (IF Upsert /\ HasCreated
             THEN [x \in {"$set", "$setOnInsert"} |->
                     IF x = "$set" THEN Obj(Stamped(op.data, UName))
                     ELSE Obj([y \in {CName} |-> DateAt(op.now)])]
             ELSE [x \in {"$set"} |-> Obj(Stamped(op.data, UName))])

C3_Witness ==
  /\ Returned /\ PlainUpdate /\ HasUpdated /\ HasCreated /\ Upsert
  /\ UName \in DOMAIN op.data /\ "age" \in DOMAIN op.data
  /\ Len(calls) = 1
  /\ SentUpdate["$set"].v[UName] = PastDate
  /\ "$setOnInsert" \in DOMAIN SentUpdate

\* C4 as stated: operator-form data is never validated and never wrapped, and
\* the update sent downstream equals data with the update-timestamp merged into
\* its $set sub-map only if it was absent there.
C4_OperatorUpdateIsDataPlusUpdatedAt ==
  (Returned /\ OperatorUpdate)
    => /\ validated = 0
       /\ Len(calls) = 1
       /\ SentUpdate = WithUpdatedAt

\* C4 as amended: the same, and on an upsert against a schema with a
\* create-timestamp field that field is also merged into $setOnInsert, only if
\* it was absent there.
C4_OperatorUpdateIsDataPlusStamps ==
  (Returned /\ OperatorUpdate)
    => /\ validated = 0
       /\ warns = 0
       /\ Len(calls) = 1
       /\ SentUpdate = WithCreatedAtOnUpsert

C4_Witness ==
  /\ Returned /\ OperatorUpdate /\ validationMode = "strict"
  /\ HasUpdated /\ HasCreated /\ Upsert
  /\ DOMAIN op.data = {"$inc", "email"}
  /\ validated = 0 /\ Len(calls) = 1
  /\ DOMAIN SentUpdate = {"$inc", "email", "$set", "$setOnInsert"}

\* C5: on a schema with a create-timestamp field an update gains
\* $setOnInsert.{that field} = now iff the call asks for an upsert and the
\* caller's $setOnInsert does not set it already; without upsert $setOnInsert is
\* what the caller gave; the stamps injected by one call are the same instant.
C5_CreatedAtOnlyOnUpsert ==
  (Returned /\ (PlainUpdate \/ OperatorUpdate) /\ HasCreated /\ calls # <<>>)
    => LET given == CallerMap("$setOnInsert")
           givenSet == IF OperatorForm(op.data) THEN CallerMap("$set") ELSE op.data
       IN /\ ~Upsert => Get(SentUpdate, "$setOnInsert") = Get(op.data, "$setOnInsert")
          /\ (Upsert /\ CName \notin DOMAIN given) =>
               /\ SentUpdate["$setOnInsert"].v[CName] = DateAt(op.now)
               /\ Without(SentUpdate["$setOnInsert"].v, {CName}) = given
          /\ (Upsert /\ CName \in DOMAIN given) => SentUpdate["$setOnInsert"] = Obj(given)
          /\ (Upsert /\ CName \notin DOMAIN given /\ HasUpdated /\ UName \notin DOMAIN givenSet) =>
               SentUpdate["$set"].v[UName] = SentUpdate["$setOnInsert"].v[CName]

C5_Witness ==
  /\ Returned /\ OperatorUpdate /\ HasCreated /\ HasUpdated /\ Upsert
  /\ op.now > 0
  /\ DOMAIN op.data = {"$inc"}
  /\ Len(calls) = 1
  /\ SentUpdate = [x \in {"$inc", "$set", "$setOnInsert"} |->
                     CASE x = "$inc" -> op.data["$inc"]
                       [] x = "$set" -> Obj([updatedAt |-> DateAt(op.now)])
                       [] x = "$setOnInsert" -> Obj([createdAt |-> DateAt(op.now)])]

\* C6: every write/update method honours `timestamps: false`: the document or
\* update sent downstream then contains no injected timestamp field.
C6_TimestampsFalseDisablesInjection ==
  (Returned /\ Get(op.options, "timestamps") = Bool(FALSE) /\ calls # <<>>)
    => CASE op.name = "create" -> calls[1].args[1] = op.data
         [] op.name = "createMany" -> calls[1].args[1] = op.data
         [] op.name \in UpdateNames ->
              SentUpdate = (IF OperatorForm(op.data) THEN op.data
                            ELSE [x \in {"$set"} |-> Obj(op.data)])
         [] OTHER -> TRUE

\* C7: with timestamps enabled and not disabled for the call, create() hands
\* insertOne a document whose timestamp fields all hold one instant t, read no
\* earlier than the call was issued and no later than it returned, and whose
\* other fields are the caller's.
C7_CreateStampsOneInstant ==
  (Returned /\ op.name = "create" /\ schema.timestamps.enabled
     /\ Get(op.options, "timestamps") # Bool(FALSE) /\ calls # <<>>)
    => LET doc == calls[1].args[1]
       IN /\ calls[1].method = "insertOne"
          /\ \E t \in calledAt..clock :
               \A name \in TsNames : name \in DOMAIN doc /\ doc[name] = DateAt(t)
          /\ Without(doc, TsNames) = Without(op.data, TsNames)

C7_Witness ==
  /\ Returned /\ op.name = "create" /\ HasCreated /\ HasUpdated
  /\ Get(op.options, "timestamps") = Undefined
  /\ Get(op.data, "createdAt") = PastDate
  /\ calledAt < op.now /\ op.now < clock
  /\ Len(calls) = 1
  /\ calls[1].args[1]["createdAt"] = DateAt(op.now)
  /\ calls[1].args[1]["updatedAt"] = DateAt(op.now)

(***************************************************************************)
(* Identity arguments of the by-id operations.                             *)
(***************************************************************************)
ByIdNames == {"findById", "updateById", "deleteById"}

\* The id argument is a string that is not an identity.
MalformedId ==
  op.id.k = "string"
    /\ ~(Len(op.id.v) = 24 /\ \A i \in 1..24 : SubSeq(op.id.v, i, i) \in HexChars)

\* C11: findById, updateById and deleteById take a native identity or a
\* string.  A malformed string ends the call with the identity error before any
\* call on the underlying collection and before any validation of the data; any
\* other id reaches the collection only as the native identity in `{_id: ...}`.
C11_IdCoercedOrFailsFirst ==
  (Returned /\ op.name \in ByIdNames) =>
    IF MalformedId
    THEN /\ outcome = Throw(Err("BSONError"))
         /\ calls = <<>> /\ validated = 0 /\ warns = 0
    ELSE /\ outcome # Throw(Err("BSONError"))
         /\ Len(calls) <= 1
         /\ \A i \in 1..Len(calls) :
              calls[i].args[1] = [x \in {"_id"} |-> NativeId(op.id.v)]

\* updateById with a malformed id and data the validator would refuse.
C11_Witness ==
  /\ Returned /\ op.name = "updateById" /\ MalformedId
  /\ validationMode = "strict" /\ ~OperatorForm(op.data) /\ UpdateInvalid(op.data)
  /\ outcome = Throw(Err("BSONError")) /\ calls = <<>> /\ validated = 0

\* A string id reaching the collection as a native identity.
C11_WitnessCoerced ==
  /\ Returned /\ op.name = "findById" /\ op.id.k = "string" /\ ~MalformedId
  /\ Len(calls) = 1 /\ calls[1].args[1]["_id"].k = "objectId"

(***************************************************************************)
(* Pass-through of the session option.                                     *)
(***************************************************************************)
OperationNames ==
  {"findOne", "findMany", "findById", "create", "createMany", "updateOne",
   "updateMany", "updateById", "deleteOne", "deleteMany", "deleteById", "count",
   "exists", "aggregate"}

\* The options object of a call on the underlying collection: its last argument.
SentOptions(call) == call.args[Len(call.args)]

\* C12: every call an operation makes on the underlying collection carries, in
\* its options, the session the caller gave (none when the caller gave none).
C12_SessionForwarded ==
  (Returned /\ op.name \in OperationNames) =>
    \A i \in 1..Len(calls) :
      Get(SentOptions(calls[i]), "session") = Get(op.options, "session")

C12_Witness ==
  /\ Returned /\ op.name = "findMany"
  /\ Get(op.options, "session") = Session("s1")
  /\ Len(calls) = 1 /\ SentOptions(calls[1])["session"] = Session("s1")

(***************************************************************************)
(* C22: every operation makes exactly one call to the underlying           *)
(* collection when it succeeds and none when it fails on strict validation *)
(* or on the coercion of the id; no operation makes two calls; an error of *)
(* the underlying call is the error the caller gets.                       *)
(***************************************************************************)
FailedBeforeCall == outcome \in {Throw(Err("ZodError")), Throw(Err("BSONError"))}

C22_OneCallOrNone ==
  Returned =>
    /\ Len(calls) <= 1
    /\ outcome.kind = "ok" => Len(calls) = 1
    /\ FailedBeforeCall => calls = <<>>
    /\ calls = <<>> =>
         \/ outcome = Throw(Err("ZodError")) /\ validationMode = "strict"
         \/ outcome = Throw(Err("BSONError")) /\ MalformedId
    /\ (calls # <<>> /\ op.reply.kind = "throw") => outcome = op.reply

\* An operation whose underlying call failed, and the caller holding that error.
C22_Witness ==
  /\ Returned
  /\ op.name = "exists"
  /\ Len(calls) = 1
  /\ op.reply = StoreError
  /\ outcome = StoreError

\* A strict validation failure that reached no underlying call.
C22_WitnessNoCall ==
  /\ Returned
  /\ op.name = "createMany"
  /\ outcome = Throw(Err("ZodError"))
  /\ calls = <<>>

(***************************************************************************)
(* C25: a native driver option the caller gives to findOne, findMany or    *)
(* findById (collation, hint, maxTimeMS) is present, unchanged, in the     *)
(* options of the underlying findOne/find call.                            *)
(***************************************************************************)
ReadNames == {"findOne", "findMany", "findById"}

NativeRead ==
  /\ Returned
  /\ op.name \in ReadNames
  /\ calls # <<>>
  /\ "collation" \in DOMAIN op.options

C25_NativeOptionsReachStore ==
  NativeRead => Get(SentOptions(calls[1]), "collation") = op.options["collation"]

\* What holds: findById spreads the caller's options; findOne and findMany
\* build the options from session, select and sort and nothing else.
C25_OnlyFindByIdForwardsNative ==
  NativeRead =>
    IF op.name = "findById"
    THEN Get(SentOptions(calls[1]), "collation") = op.options["collation"]
    ELSE DOMAIN SentOptions(calls[1]) \subseteq {"session", "projection", "sort"}

C25_Witness ==
  /\ NativeRead
  /\ op.name = "findOne"
  /\ "collation" \notin DOMAIN SentOptions(calls[1])

(***************************************************************************)
(* C27: no update operation modifies the object the caller passed as       *)
(* `data`, nor a sub-map reachable from it (`data.$set`,                   *)
(* `data.$setOnInsert`): after the call they hold what they held before.   *)
(***************************************************************************)
UpdateServed == Returned /\ op.name \in UpdateNames /\ calls # <<>>

C27_CallerDataUntouched == UpdateServed => callerData = op.data

\* What holds: the caller's object keeps its own keys; a sub-map it holds
\* under `$set` or `$setOnInsert` can only gain the timestamp the schema names
\* for it, and every other entry of the caller's data is as it was.
C27_OnlySubMapsGainTimestamps ==
  UpdateServed =>
    /\ DOMAIN callerData = DOMAIN op.data
    /\ \A key \in DOMAIN op.data :
         \/ callerData[key] = op.data[key]
         \/ /\ key = "$set" /\ HasUpdated
            /\ callerData[key] = Obj(Put(op.data[key].v, UName, DateAt(op.now)))
         \/ /\ key = "$setOnInsert" /\ HasCreated /\ Upsert
            /\ callerData[key] = Obj(Put(op.data[key].v, CName, DateAt(op.now)))

\* An operator update whose `$set` sub-map came back with updatedAt in it.
C27_Witness ==
  /\ UpdateServed
  /\ op.name = "updateOne"
  /\ "$set" \in DOMAIN op.data
  /\ callerData["$set"] # op.data["$set"]
  /\ callerData["$set"] = SentUpdate["$set"]

(***************************************************************************)
(* C28: the update sent never assigns one timestamp field under two        *)
(* operators: createdAt is not a key of both `$set` and `$setOnInsert`,    *)
(* and updatedAt is not a key of `$set` and of another operator sub-map,   *)
(* unless the caller's data already had that conflict.                     *)
(***************************************************************************)
SubMapKeys(doc, operator) ==
  IF Get(doc, operator).k = "object" THEN DOMAIN doc[operator].v ELSE {}

OtherOperators == {"$setOnInsert", "$currentDate", "$unset"}

CreatedConflict(doc) ==
  HasCreated /\ CName \in SubMapKeys(doc, "$set") \cap SubMapKeys(doc, "$setOnInsert")

UpdatedConflict(doc) ==
  HasUpdated /\ UName \in SubMapKeys(doc, "$set")
    /\ \E operator \in OtherOperators : UName \in SubMapKeys(doc, operator)

C28_NoTimestampUnderTwoOperators ==
  UpdateServed =>
    /\ CreatedConflict(SentUpdate) => CreatedConflict(op.data)
    /\ UpdatedConflict(SentUpdate) => UpdatedConflict(op.data)

\* What holds: a conflict the caller did not write arises only on a
\* timestamp field that the caller's data names itself, under the one operator
\* the stamping does not look at: createdAt in the caller's `$set` (or plain
\* data) with upsert, or updatedAt in another operator's sub-map.
C28_ConflictOnlyOnCallerNamedStamp ==
  UpdateServed =>
    /\ (CreatedConflict(SentUpdate) /\ ~CreatedConflict(op.data)) =>
         /\ Upsert
         /\ CName \in (IF OperatorForm(op.data) THEN SubMapKeys(op.data, "$set")
                       ELSE DOMAIN op.data)
         /\ SentUpdate["$setOnInsert"].v[CName] = DateAt(op.now)
    /\ (UpdatedConflict(SentUpdate) /\ ~UpdatedConflict(op.data)) =>
         /\ \E operator \in OtherOperators : UName \in SubMapKeys(op.data, operator)
         /\ SentUpdate["$set"].v[UName] = DateAt(op.now)

\* An upsert whose plain data names createdAt: sent under `$set` and `$setOnInsert`.
C28_Witness ==
  /\ UpdateServed
  /\ ~OperatorForm(op.data)
  /\ CreatedConflict(SentUpdate)
  /\ ~CreatedConflict(op.data)

(***************************************************************************)
(* Validator derivation over field definitions.  A second population of    *)
(* schemas: one field, of any of the definitions below, under a name that  *)
(* may be `_id` or may coincide with a timestamp name.  The three derived  *)
(* validators are applied to documents directly, and create() is called on *)
(* a contract bound to the schema.                                         *)
(***************************************************************************)
\* Object spread: the keys of `b` over those of `a`.
Merge(a, b) == [x \in DOMAIN a \cup DOMAIN b |-> IF x \in DOMAIN b THEN b[x] ELSE a[x]]

RoleEnum == {"ADMIN", "USER"}

StringConstraints ==
  {EmptyDoc,
   [minLength |-> 5],
   [maxLength |-> 4, pattern |-> {"USER", "http://a.io"}, email |-> TRUE, url |-> TRUE]}

StringDefs ==
  {Merge(Merge(Merge([type |-> "string", required |-> r, unique |-> FALSE], c), e), d) :
     r \in BOOLEAN, c \in StringConstraints,
     e \in {EmptyDoc, [enum |-> RoleEnum]},
     d \in {EmptyDoc, [x \in {"default"} |-> Str("USER")]}}

ObjectIdDefs ==
  {Merge([type |-> "objectId", required |-> r, unique |-> u], d) :
     r \in BOOLEAN, u \in BOOLEAN,
     d \in {EmptyDoc, [x \in {"default"} |-> Str("auto")]}}

NumberDefs ==
  {Merge([type |-> "number", required |-> r, unique |-> FALSE, min |-> 0, max |-> 150,
          index |-> [type |-> 1]], d) :
     r \in BOOLEAN, d \in {EmptyDoc, [x \in {"default"} |-> Num(18)]}}

JsonDefs == {[type |-> "json", required |-> r, unique |-> FALSE] : r \in BOOLEAN}

\* s.object({ age: s.number().required() }) and s.object() without properties.
ObjectDefs ==
  {[type |-> "object", required |-> TRUE, unique |-> FALSE,
    properties |-> [age |-> [type |-> "number", required |-> TRUE, unique |-> FALSE]]],
   [type |-> "object", required |-> TRUE, unique |-> FALSE]}

FieldDefs == StringDefs \cup ObjectIdDefs \cup NumberDefs \cup JsonDefs \cup ObjectDefs

FieldNames == {"_id", "role", "createdAt"}

FieldTimestampInputs == {Bool(TRUE), Bool(FALSE), Obj([updatedAt |-> "updatedAt"])}

MakeFieldSchema(fieldName, def, t) ==
  [name |-> "users",
   collection |-> "users",
   timestamps |-> ResolveTimestamps(t),
   fields |-> [x \in {fieldName} |-> def]]

FieldSchemas ==
  {MakeFieldSchema(n, def, t) : n \in FieldNames, def \in FieldDefs, t \in FieldTimestampInputs}

HexId == "507f1f77bcf86cd799439011"

FieldValues ==
  {Undefined, Null, Str("ADMIN"), Str("USER"), Str("OWNER"), Str(HexId), NativeId(HexId),
   Num(18), Num(200), Obj(EmptyDoc), Obj([age |-> Num(30), nick |-> Str("x")])}

FieldDocs ==
  {MkDoc([x \in FieldNames |->
            CASE x = "_id" -> i [] x = "role" -> v [] x = "createdAt" -> c]) :
     i \in {Undefined, NativeId(HexId), Num(18)},
     v \in FieldValues,
     c \in {Undefined, PastDate, Str("ADMIN")}}

NoReply == [kind |-> "none", value |-> Undefined]

VInit ==
  /\ validationMode \in ValidationModes
  /\ schema \in FieldSchemas
  /\ clock = 0
  /\ pc = "idle"
  /\ op = NoOp
  /\ calledAt = 0
  /\ calls = <<>>
  /\ warns = 0
  /\ validated = 0
  /\ outcome = NoOutcome
  /\ callerData = EmptyDoc
  /\ NoClient
  /\ NoSync
  /\ NoBuilder

\* zodSchema(schema).safeParse(data)
ZodSchemaParse ==
  /\ pc = "idle"
  /\ \E data \in FieldDocs :
       Serve(OpRec("zodSchema", EmptyDoc, Undefined, data, EmptyDoc, clock, NoReply),
             Effect(<<>>, NoValidation, Return(safeParse(zodSchema(schema), data))))

\* zodCreateSchema(schema).safeParse(data)
ZodCreateSchemaParse ==
  /\ pc = "idle"
  /\ \E data \in FieldDocs :
       Serve(OpRec("zodCreateSchema", EmptyDoc, Undefined, data, EmptyDoc, clock, NoReply),
             Effect(<<>>, NoValidation, Return(safeParse(zodCreateSchema(schema), data))))

\* zodUpdateSchema(schema).safeParse(data)
ZodUpdateSchemaParse ==
  /\ pc = "idle"
  /\ \E data \in FieldDocs :
       Serve(OpRec("zodUpdateSchema", EmptyDoc, Undefined, data, EmptyDoc, clock, NoReply),
             Effect(<<>>, NoValidation, Return(safeParse(zodUpdateSchema(schema), data))))

\* create(data) on the contract bound to the schema.
CreateField ==
  /\ pc = "idle"
  /\ \E data \in FieldDocs :
       Serve(OpRec("create", EmptyDoc, Undefined, data, EmptyDoc, clock, Return(Str("ack"))),
             create(data, EmptyDoc, clock, Return(Str("ack"))))

VNext ==
  \/ ZodSchemaParse
  \/ ZodCreateSchemaParse
  \/ ZodUpdateSchemaParse
  \/ CreateField
  \/ Done

ValidatorSpec == VInit /\ [][VNext]_vars

(***************************************************************************)
(* Properties of the derived validators.                                   *)
(***************************************************************************)
\* The definition of the field named "role" of the schema under test.
RoleDef == schema.fields["role"]

HasRole(type) == "role" \in DOMAIN schema.fields /\ RoleDef.type = type

\* The verdict of the validator the call applied.
Accepted == outcome.value.success

\* A native identity, or a string in the identity format.
IsIdentity(val) ==
  \/ val.k = "objectId"
  \/ val.k = "string" /\ Len(val.v) = 24
       /\ \A i \in 1..24 : SubSeq(val.v, i, i) \in HexChars

\* C13: the node derived for a required objectId field accepts a value exactly
\* when it is a native identity or a string of 24 hexadecimal characters.
C13_ObjectIdAcceptsExactlyIdentities ==
  (Returned /\ op.name = "zodCreateSchema" /\ HasRole("objectId") /\ RoleDef.required)
    => (Accepted <=> IsIdentity(Get(op.data, "role")))

\* What the node does: it accepts every string, and the native identity.
C13_ObjectIdAcceptsAnyString ==
  (Returned /\ op.name = "zodCreateSchema" /\ HasRole("objectId") /\ RoleDef.required)
    => (Accepted <=> Get(op.data, "role").k \in {"string", "objectId"})

C13_Witness ==
  /\ Returned /\ op.name = "zodCreateSchema" /\ HasRole("objectId") /\ RoleDef.required
  /\ Get(op.data, "role") = Str("OWNER") /\ Accepted

\* The names the create validator leaves out: `_id` and the resolved
\* timestamp field names.
GeneratedNames == {"_id"} \cup TsNames

\* C14: whenever the full validator accepts a value, the create validator
\* accepts it, with or without `_id` and the timestamp fields; and the create
\* validator's shape is the full shape without those names, node for node.
C14_CreateValidatorIsFullMinusGenerated ==
  LET full == zodSchema(schema)
      createV == zodCreateSchema(schema)
  IN (Returned /\ op.name = "zodSchema") =>
       /\ Accepted =>
            /\ safeParse(createV, Without(op.data, GeneratedNames)).success
            /\ safeParse(createV, op.data).success
       /\ DOMAIN createV.shape = DOMAIN full.shape \ GeneratedNames
       /\ \A f \in DOMAIN createV.shape : createV.shape[f] = full.shape[f]

\* A document with `_id` and a timestamp accepted by the full validator of a
\* schema that requires `_id`.
C14_Witness ==
  /\ Returned /\ op.name = "zodSchema" /\ Accepted
  /\ "_id" \in DOMAIN schema.fields /\ schema.fields["_id"].required
  /\ "createdAt" \in TsNames
  /\ {"_id", "createdAt"} \subseteq DOMAIN op.data
  /\ safeParse(zodCreateSchema(schema), Without(op.data, GeneratedNames)).success

\* C15: the update validator accepts a document exactly when every field the
\* document supplies passes the node the create validator has for it; a field
\* the document does not supply is never a reason to reject.
C15_UpdateValidatorIsPartialCreate ==
  LET createShape == zodCreateSchema(schema).shape
  IN (Returned /\ op.name = "zodUpdateSchema") =>
       (Accepted <=>
          \A f \in DOMAIN createShape \cap DOMAIN op.data :
            ZParse(createShape[f], op.data[f]).success)

\* An update that omits a required field and is accepted.
C15_Witness ==
  /\ Returned /\ op.name = "zodUpdateSchema" /\ Accepted
  /\ "role" \in DOMAIN schema.fields /\ RoleDef.required
  /\ "default" \notin DOMAIN RoleDef
  /\ "role" \notin DOMAIN op.data

\* An update that supplies a field the create validator refuses.
C15_WitnessRejected ==
  /\ Returned /\ op.name = "zodUpdateSchema" /\ ~Accepted
  /\ HasRole("number") /\ Get(op.data, "role") = Num(200)

\* The field has a declared default that fieldToZod applies.
DeclaresDefault(def) == "default" \in DOMAIN def /\ def["default"] # Str("auto")

\* C16: after create() of a document that omits a field declared with a
\* default, the document handed to insertOne carries the default for it.
C16_DefaultReachesStore ==
  (Returned /\ op.name = "create" /\ Len(calls) = 1
     /\ "role" \in DOMAIN schema.fields /\ DeclaresDefault(RoleDef)
     /\ "role" \notin DOMAIN op.data)
    => Get(calls[1].args[1], "role") = RoleDef["default"]

\* What create() does: the caller's fields are inserted as given; the output
\* of the validator, defaults included, is discarded.
C16_InsertCarriesCallerFieldsOnly ==
  (Returned /\ op.name = "create" /\ Len(calls) = 1) =>
    \A f \in DOMAIN calls[1].args[1] :
      f \in DOMAIN op.data \/ f \in TsNames

C16_Witness ==
  /\ Returned /\ op.name = "create" /\ Len(calls) = 1
  /\ "role" \in DOMAIN schema.fields /\ DeclaresDefault(RoleDef)
  /\ safeParse(zodCreateSchema(schema), op.data).data.v = [role |-> RoleDef["default"]]
  /\ "role" \notin DOMAIN calls[1].args[1]

\* The document supplies nothing but, possibly, the field named "role".
OnlyRole == DOMAIN op.data \subseteq {"role"}

AbsentOrNull(val) == val = Undefined \/ val = Null

\* C17: the full and create validators reject a document whose required field
\* is absent or null and accept one whose non-required field is absent or
\* null, whatever else the field definition carries.
C17_RequiredRejectsAbsentAndNull ==
  (Returned /\ op.name \in {"zodSchema", "zodCreateSchema"}
     /\ "role" \in DOMAIN schema.fields /\ OnlyRole
     /\ AbsentOrNull(Get(op.data, "role")))
    => (Accepted <=> ~RoleDef.required)

\* What the validators do with an absent or null field.  Null is accepted
\* exactly when the field is not required or is of type json.  An absent field
\* with an applied default is judged by that default; without one it is
\* accepted exactly when the field is not required or is of type json.
C17_AbsentAndNullVerdicts ==
  (Returned /\ op.name \in {"zodSchema", "zodCreateSchema"}
     /\ "role" \in DOMAIN schema.fields /\ OnlyRole
     /\ AbsentOrNull(Get(op.data, "role")))
    => (Accepted <=>
          IF Get(op.data, "role") = Undefined /\ DeclaresDefault(RoleDef)
          THEN safeParse(zodCreateSchema(schema), [role |-> RoleDef["default"]]).success
          ELSE ~RoleDef.required \/ RoleDef.type = "json")

\* A required json field that is absent, accepted by the create validator.
C17_Witness ==
  /\ Returned /\ op.name = "zodCreateSchema" /\ HasRole("json") /\ RoleDef.required
  /\ op.data = EmptyDoc /\ Accepted

\* C18: for a string field that carries an enum, the create validator accepts
\* a string exactly when it is one of the enum's values; minLength, maxLength,
\* pattern, email and url of the same definition play no part.
C18_EnumIsTheOnlyStringCheck ==
  (Returned /\ op.name = "zodCreateSchema" /\ HasRole("string")
     /\ "enum" \in DOMAIN RoleDef /\ Get(op.data, "role").k = "string")
    => (Accepted <=> op.data["role"].v \in RoleDef.enum)

\* "USER" accepted by an enum field that also asks for five characters.
C18_Witness ==
  /\ Returned /\ op.name = "zodCreateSchema" /\ HasRole("string")
  /\ "enum" \in DOMAIN RoleDef /\ RoleDef.enum = {"ADMIN", "USER"}
  /\ "minLength" \in DOMAIN RoleDef /\ RoleDef.minLength > Len("USER")
  /\ Get(op.data, "role") = Str("USER") /\ Accepted

\* "OWNER" refused by the same kind of field.
C18_WitnessRejected ==
  /\ Returned /\ op.name = "zodCreateSchema" /\ HasRole("string")
  /\ "enum" \in DOMAIN RoleDef /\ RoleDef.enum = {"ADMIN", "USER"}
  /\ Get(op.data, "role") = Str("OWNER") /\ ~Accepted

\* The object field declared with child fields, and a value for it that
\* carries a key the declaration does not have.
DeclaredKeys == DOMAIN RoleDef["properties"]

ExtraKeys == DOMAIN Get(op.data, "role").v \ DeclaredKeys

ObjectWithExtraKeys ==
  /\ Returned
  /\ HasRole("object") /\ "properties" \in DOMAIN RoleDef
  /\ OnlyRole
  /\ Get(op.data, "role").k = "object"
  /\ ExtraKeys # {}
  /\ \A key \in DeclaredKeys :
       ZParse(fieldToZod(RoleDef["properties"][key]), Get(op.data["role"].v, key)).success

\* C26: the validator of an object field accepts a value with undeclared
\* keys, and the undeclared keys are present, unchanged, in the parsed output
\* and in the document create() hands to insertOne.
C26_ExtraKeysPassThrough ==
  ObjectWithExtraKeys =>
    /\ op.name \in {"zodSchema", "zodCreateSchema", "zodUpdateSchema"} =>
         /\ Accepted
         /\ \A key \in ExtraKeys :
              Get(outcome.value.data.v["role"].v, key) = op.data["role"].v[key]
    /\ (op.name = "create" /\ Len(calls) = 1) =>
         \A key \in ExtraKeys :
           Get(calls[1].args[1]["role"].v, key) = op.data["role"].v[key]

\* What holds: the value is accepted and create() inserts it as given, but the
\* parsed output of the validator has the declared keys only.
C26_ExtraKeysAcceptedAndStripped ==
  ObjectWithExtraKeys =>
    /\ op.name \in {"zodSchema", "zodCreateSchema", "zodUpdateSchema"} =>
         /\ Accepted
         /\ DOMAIN outcome.value.data.v["role"].v = DeclaredKeys
    /\ (op.name = "create" /\ Len(calls) = 1) =>
         calls[1].args[1]["role"] = op.data["role"]

C26_Witness ==
  /\ ObjectWithExtraKeys
  /\ op.name = "zodCreateSchema"
  /\ Accepted
  /\ "nick" \notin DOMAIN outcome.value.data.v["role"].v

(***************************************************************************)
(* Client composition: createClient, the connect-on-demand factory, index  *)
(* synchronisation on connect, and the per-name accessor of a client.      *)
(***************************************************************************)
MaxRuns == 2

ClientSchema(name, fieldNames, fields, indexes) ==
  [name |-> name,
   collection |-> name,
   timestamps |-> TimestampsOff,
   fieldNames |-> fieldNames,
   fields |-> fields,
   indexes |-> indexes]

\* The schemas given to createClient; the last three are named after a client
\* method, an ignored property and a member every object inherits.
ClientSchemas ==
  <<ClientSchema("users", <<"email">>,
                 [email |-> [type |-> "string", required |-> TRUE, unique |-> TRUE]], <<>>),
    ClientSchema("posts", <<"title">>,
                 [title |-> [type |-> "string", required |-> TRUE, unique |-> FALSE,
                             index |-> [type |-> Str("text")]]],
                 <<[fields |-> [authorId |-> Num(1)], options |-> [unique |-> Bool(TRUE)]]>>),
    ClientSchema("close", <<>>, EmptyDoc, <<>>),
    ClientSchema("then", <<>>, EmptyDoc, <<>>),
    ClientSchema("toString", <<>>, EmptyDoc, <<>>)>>

SchemaNames == {ClientSchemas[i].name : i \in 1..Len(ClientSchemas)}

\* schemaMap.get(name)
SchemaNamed(name) == CHOOSE s \in {ClientSchemas[i] : i \in 1..Len(ClientSchemas)} : s.name = name

RECURSIVE FieldIndexesOf(_, _)
FieldIndexesOf(s, names) ==
  IF names = <<>> THEN <<>>
  ELSE LET fieldName == Head(names)
           fieldDef == s.fields[fieldName]
           hasIndex == "index" \in DOMAIN fieldDef
           declared ==
             IF hasIndex THEN <<[field |-> fieldName, options |-> fieldDef.index]>> ELSE <<>>
           uniqueOnly ==
             IF fieldDef.unique /\ ~hasIndex
             THEN <<[field |-> fieldName, options |-> [unique |-> Bool(TRUE)]]>> ELSE <<>>
       IN declared \o uniqueOnly \o FieldIndexesOf(s, Tail(names))

getFieldIndexes(s) == FieldIndexesOf(s, s.fieldNames)

\* `if (options.key) indexOptions.key = options.key` for each of the keys.
CopyTruthy(options, keys) ==
  [x \in {key \in keys \cap DOMAIN options : Truthy(options[key])} |-> options[x]]

CreateIndexCall(collection, indexSpec, indexOptions) ==
  [method |-> "createIndex", collection |-> collection, args |-> <<indexSpec, indexOptions>>]

FieldIndexCall(s, entry) ==
  LET indexSpec ==
        [x \in {entry.field} |->
           IF "type" \in DOMAIN entry.options THEN entry.options.type ELSE Num(1)]
      indexOptions ==
        Merge(CopyTruthy(entry.options, {"name", "unique", "sparse", "partialFilterExpression"}),
              [x \in {"expireAfterSeconds"} \cap DOMAIN entry.options |-> entry.options[x]])
  IN CreateIndexCall(s.collection, indexSpec, indexOptions)

\* `index.options?.x`: a compound index may come without options.
OptionsOf(index) == IF "options" \in DOMAIN index THEN index.options ELSE EmptyDoc

CompoundIndexCall(s, index) ==
  CreateIndexCall(s.collection, index.fields,
                  CopyTruthy(OptionsOf(index),
                             {"name", "unique", "sparse", "partialFilterExpression", "weights"}))

\* The createIndex calls of one schema, in the order syncIndexes makes them.
SchemaIndexCalls(s) ==
  LET fieldIndexes == getFieldIndexes(s)
  IN [i \in 1..Len(fieldIndexes) |-> FieldIndexCall(s, fieldIndexes[i])]
       \o [i \in 1..Len(s.indexes) |-> CompoundIndexCall(s, s.indexes[i])]

RECURSIVE syncIndexes(_)
syncIndexes(schemas) ==
  IF schemas = <<>> THEN <<>>
  ELSE SchemaIndexCalls(Head(schemas)) \o syncIndexes(Tail(schemas))

ConnectCall == [method |-> "connect", collection |-> "", args |-> <<>>]

\* `new MongoClient(uri, options)` followed by the call of connect().
NewRun ==
  [stage |-> "connecting", connected |-> FALSE, synced |-> 0, cache |-> EmptyDoc,
   calls |-> <<ConnectCall>>]

Configs ==
  {[serverless |-> sl, syncIndexes |-> si, validation |-> m] :
     sl \in BOOLEAN, si \in BOOLEAN, m \in ValidationModes}

BaseClientKeys == {"close", "getDb", "startSession"}

\* Members a plain object inherits, which `prop in target` also finds.
ObjectPrototypeKeys == {"toString", "valueOf", "hasOwnProperty"}

IGNORED_PROPERTIES ==
  {"then", "catch", "finally", "inspect", "nodeType", "toJSON", "constructor",
   "prototype", "__proto__"}

SymbolProp == [k |-> "symbol", v |-> "Symbol.toStringTag"]

Props ==
  {Str("users"), Str("posts"), Str("close"), Str("then"), Str("toString"),
   Str("comments"), SymbolProp}

BoundMethod(name) == [k |-> "function", v |-> name]

Contract(id) == [k |-> "contract", v |-> id]

\* `new CollectionProxy(db, schema, validationMode)`: the contract constructed
\* for `name` on the client of `run`, told apart from any earlier one.
NewContract(run, name) ==
  [run |-> run, name |-> name, validationMode |-> config.validation,
   serial |-> Cardinality({c \in instances : c.run = run /\ c.name = name}) + 1]

\* Variant of the accessor: a contract is constructed on every access.
proxyGet_NeverCaches(run, prop) ==
  IF prop.k = "string" /\ prop.v \in SchemaNames
       /\ prop.v \notin IGNORED_PROPERTIES \cup BaseClientKeys \cup ObjectPrototypeKeys
  THEN [result |-> Contract(NewContract(run, prop.v)),
        cache |-> Put(runs[run].cache, prop.v, NewContract(run, prop.v)),
        instances |-> instances \cup {NewContract(run, prop.v)}]
  ELSE [result |-> IF prop.k = "string" /\ prop.v \in BaseClientKeys \cup ObjectPrototypeKeys
                      /\ prop.v \notin IGNORED_PROPERTIES
                   THEN BoundMethod(prop.v) ELSE Undefined,
        cache |-> runs[run].cache, instances |-> instances]

\* Variant: the schema map is consulted before the client's own members.
proxyGet_SchemaFirst(run, prop) ==
  LET proxyCache == runs[run].cache
      unchanged(result) == [result |-> result, cache |-> proxyCache, instances |-> instances]
  IN IF prop.k = "symbol" THEN unchanged(Undefined)
     ELSE IF prop.v \in SchemaNames
          THEN IF prop.v \in DOMAIN proxyCache
               THEN unchanged(Contract(proxyCache[prop.v]))
               ELSE LET proxy == NewContract(run, SchemaNamed(prop.v).name)
                    IN [result |-> Contract(proxy),
                        cache |-> Put(proxyCache, prop.v, proxy),
                        instances |-> instances \cup {proxy}]
     ELSE IF prop.v \in IGNORED_PROPERTIES THEN unchanged(Undefined)
     ELSE IF prop.v \in BaseClientKeys \cup ObjectPrototypeKeys
          THEN unchanged(BoundMethod(prop.v))
     ELSE unchanged(Undefined)

\* The get trap of the client returned by createClientProxy: what reading
\* `prop` yields, and the proxyCache and the contracts constructed afterwards.
proxyGet(run, prop) ==
  LET proxyCache == runs[run].cache
      unchanged(result) == [result |-> result, cache |-> proxyCache, instances |-> instances]
  IN IF prop.k = "symbol" THEN unchanged(Undefined)
     ELSE IF prop.v \in IGNORED_PROPERTIES THEN unchanged(Undefined)
     ELSE IF prop.v \in BaseClientKeys \cup ObjectPrototypeKeys
          THEN unchanged(BoundMethod(prop.v))
     ELSE IF prop.v \in SchemaNames
          THEN IF prop.v \in DOMAIN proxyCache
               THEN unchanged(Contract(proxyCache[prop.v]))
               ELSE LET proxy == NewContract(run, SchemaNamed(prop.v).name)
                    IN [result |-> Contract(proxy),
                        cache |-> Put(proxyCache, prop.v, proxy),
                        instances |-> instances \cup {proxy}]
     ELSE unchanged(Undefined)

\* Variant: the client is returned as soon as the connection is up.
afterConnect_SkipsSync(cfg) == "resolved"

\* After `await client.connect()`: synchronise the indexes if asked to, then
\* return the client.
afterConnect(cfg) ==
  IF cfg.syncIndexes /\ syncIndexes(ClientSchemas) # <<>> THEN "syncing" ELSE "resolved"

ContractIdle ==
  /\ validationMode = "strict"
  /\ schema = MakeSchema(Bool(FALSE))
  /\ clock = 0
  /\ pc = "idle"
  /\ op = NoOp
  /\ calledAt = 0
  /\ calls = <<>>
  /\ warns = 0
  /\ validated = 0
  /\ outcome = NoOutcome
  /\ callerData = EmptyDoc

CInit == ContractIdle /\ NoClient /\ NoSync /\ NoBuilder

\* createClient(config): the serverless branch returns the factory; the other
\* branch starts the async body, which runs up to `await client.connect()`.
CreateClient ==
  /\ phase = "none"
  /\ \E cfg \in Configs :
       /\ config' = cfg
       /\ IF cfg.serverless
          THEN /\ phase' = "factory"
               /\ UNCHANGED runs
          ELSE /\ phase' = "promise"
               /\ runs' = <<NewRun>>
  /\ UNCHANGED <<instances, lastGet>>
  /\ UNCHANGED vars
  /\ UNCHANGED svars
  /\ UNCHANGED bvars

\* The factory is invoked: a new MongoClient, and connect() is called on it.
InvokeFactory ==
  /\ phase = "factory"
  /\ Len(runs) < MaxRuns
  /\ runs' = Append(runs, NewRun)
  /\ UNCHANGED <<config, phase, instances, lastGet>>
  /\ UNCHANGED vars
  /\ UNCHANGED svars
  /\ UNCHANGED bvars

\* connect() settles.
ConnectDone(run) ==
  /\ runs[run].stage = "connecting"
  /\ \E ok \in BOOLEAN :
       runs' = [runs EXCEPT ![run].connected = ok,
                            ![run].stage = IF ok THEN afterConnect(config) ELSE "rejected"]
  /\ UNCHANGED <<config, phase, instances, lastGet>>
  /\ UNCHANGED vars
  /\ UNCHANGED svars
  /\ UNCHANGED bvars

\* One `await collection.createIndex(...)` of syncIndexes.
SyncStep(run) ==
  /\ runs[run].stage = "syncing"
  /\ LET pending == syncIndexes(ClientSchemas)
         done == runs[run].synced + 1
     IN \E ok \in BOOLEAN :
          runs' = [runs EXCEPT ![run].calls = Append(@, pending[done]),
                               ![run].synced = IF ok THEN done ELSE @,
                               ![run].stage = IF ~ok THEN "rejected"
                                              ELSE IF done = Len(pending) THEN "resolved"
                                              ELSE "syncing"]
  /\ UNCHANGED <<config, phase, instances, lastGet>>
  /\ UNCHANGED vars
  /\ UNCHANGED svars
  /\ UNCHANGED bvars

\* A property is read from a client that has been handed out.
Access(run) ==
  /\ runs[run].stage = "resolved"
  /\ \E prop \in Props :
       LET r == proxyGet(run, prop)
       IN /\ lastGet' = [run |-> run, prop |-> prop, result |-> r.result]
          /\ runs' = [runs EXCEPT ![run].cache = r.cache]
          /\ instances' = r.instances
  /\ UNCHANGED <<config, phase>>
  /\ UNCHANGED vars
  /\ UNCHANGED svars
  /\ UNCHANGED bvars

CNext ==
  \/ CreateClient
  \/ InvokeFactory
  \/ \E run \in 1..Len(runs) : ConnectDone(run)
  \/ \E run \in 1..Len(runs) : SyncStep(run)
  \/ \E run \in 1..Len(runs) : Access(run)

ClientSpec == CInit /\ [][CNext]_cvars

(***************************************************************************)
(* Properties of client composition.                                       *)
(***************************************************************************)
\* Names the accessor answers before it looks at the schemas.
ShadowedNames == IGNORED_PROPERTIES \cup BaseClientKeys \cup ObjectPrototypeKeys

ReachableNames == SchemaNames \ ShadowedNames

\* A client never has two contracts for one name.
AtMostOnePerName ==
  \A c1, c2 \in instances : (c1.run = c2.run /\ c1.name = c2.name) => c1 = c2

\* The last read returned the one contract its client holds for that name.
ReturnsCached ==
  /\ lastGet.result.k = "contract"
  /\ lastGet.result.v \in instances
  /\ lastGet.result.v.run = lastGet.run
  /\ lastGet.result.v.name = lastGet.prop.v
  /\ runs[lastGet.run].cache[lastGet.prop.v] = lastGet.result.v

NameRead == lastGet.run # 0 /\ lastGet.prop.k = "string"

\* C19 as stated: reading any schema name yields the one cached contract of
\* that name, and reading a name that is neither a schema nor a client method
\* yields undefined.
C19_EverySchemaNameYieldsItsContract ==
  /\ AtMostOnePerName
  /\ NameRead =>
       /\ lastGet.prop.v \in SchemaNames => ReturnsCached
       /\ lastGet.prop.v \notin SchemaNames \cup BaseClientKeys => lastGet.result = Undefined

C19_State ==
  /\ AtMostOnePerName
  /\ \A c \in instances :
       c.name \in ReachableNames /\ Get(runs[c.run].cache, c.name) = c
  /\ NameRead =>
       /\ lastGet.prop.v \in ReachableNames => ReturnsCached
       /\ lastGet.prop.v \in ShadowedNames => lastGet.result.k # "contract"
       /\ lastGet.prop.v \notin SchemaNames \cup ShadowedNames => lastGet.result = Undefined

C19_Step ==
  /\ instances \subseteq instances'
  /\ \A run \in 1..Len(runs) : \A name \in DOMAIN runs[run].cache :
       Get(runs'[run].cache, name) = runs[run].cache[name]
  /\ \A c \in instances' \ instances :
       lastGet' = [run |-> c.run, prop |-> Str(c.name), result |-> Contract(c)]

\* C19, for names the accessor does not shadow: a client constructs the
\* contract of a schema name when the name is first read, only then, and at most
\* once; it keeps it, and every read of the name returns it.  A shadowed name
\* never yields a contract, and a name that is neither a schema nor shadowed
\* yields undefined.
C19_ContractCachedPerReachableName == []C19_State /\ [][C19_Step]_cvars

\* Two clients, each holding its own contracts for both names.
C19_Witness ==
  /\ Len(runs) = 2
  /\ \A run \in 1..2 : DOMAIN runs[run].cache = {"users", "posts"}
  /\ lastGet.prop = Str("users") /\ ReturnsCached
  /\ Cardinality(instances) = 4

C19_WitnessInherited ==
  /\ lastGet.run # 0 /\ lastGet.prop = Str("toString")
  /\ lastGet.result = BoundMethod("toString")

\* The calls a client has made on the driver by the time it is handed out.
CallsBeforeHandOut ==
  IF config.syncIndexes THEN <<ConnectCall>> \o syncIndexes(ClientSchemas) ELSE <<ConnectCall>>

C20_State ==
  /\ phase = "factory" => config.serverless
  /\ phase = "promise" => (~config.serverless /\ Len(runs) = 1)
  /\ \A run \in 1..Len(runs) :
       /\ runs[run].calls[1] = ConnectCall
       /\ runs[run].stage = "resolved" =>
            (runs[run].connected /\ runs[run].calls = CallsBeforeHandOut)
       /\ runs[run].stage # "resolved" => runs[run].cache = EmptyDoc
       /\ \A name \in DOMAIN runs[run].cache : runs[run].cache[name].run = run
  /\ lastGet.run # 0 => runs[lastGet.run].stage = "resolved"

C20_Step ==
  /\ (phase = "none" /\ phase' = "factory") => runs' = <<>>
  /\ (phase = "none" /\ phase' = "promise") => runs' = <<NewRun>>
  /\ (phase = "factory" /\ runs' # runs /\ Len(runs') > Len(runs)) =>
       (runs' = Append(runs, NewRun) /\ phase' = "factory")

\* C20: with `serverless: true` createClient returns a factory and makes no
\* call on the driver; every invocation of the factory makes a new client, calls
\* connect on it, and gives it a contract cache of its own.  Without
\* `serverless`, createClient itself makes the one client and calls connect.  A
\* client is read from only after connect has succeeded and, when syncIndexes
\* is set, after every createIndex of the synchronisation has been made.
C20_ConnectOnDemandOrAtOnce == []C20_State /\ [][C20_Step]_cvars

\* A factory with two invocations: one client handed out after connect and
\* index synchronisation and already read from, the other still connecting.
C20_Witness ==
  /\ phase = "factory" /\ config.syncIndexes /\ Len(runs) = 2
  /\ runs[1].stage = "resolved" /\ Len(runs[1].calls) = 4
  /\ "users" \in DOMAIN runs[1].cache
  /\ runs[2].stage = "connecting" /\ runs[2].calls = <<ConnectCall>>

\* The factory exists and nothing has been opened.
C20_WitnessFactoryOnly == phase = "factory" /\ runs = <<>> /\ instances = {}

(***************************************************************************)
(* C23: a schema named after a member of the client (close, getDb,         *)
(* startSession) is never reached through the accessor: the read yields    *)
(* the client's method and no contract is built for the name; a schema     *)
(* named after an ignored property (then, catch, ...) reads as undefined.  *)
(***************************************************************************)
MemberNamedSchemas == SchemaNames \cap BaseClientKeys

IgnoredNamedSchemas == SchemaNames \cap IGNORED_PROPERTIES

C23_ShadowedSchemaUnreachable ==
  /\ \A c \in instances : c.name \notin MemberNamedSchemas \cup IgnoredNamedSchemas
  /\ \A i \in 1..Len(runs) :
       DOMAIN runs[i].cache \cap (MemberNamedSchemas \cup IgnoredNamedSchemas) = {}
  /\ NameRead =>
       /\ lastGet.prop.v \in MemberNamedSchemas =>
            lastGet.result = BoundMethod(lastGet.prop.v)
       /\ lastGet.prop.v \in IgnoredNamedSchemas => lastGet.result = Undefined

\* `db.close` read on a client whose schema list has a schema named close.
C23_Witness ==
  /\ NameRead
  /\ lastGet.prop = Str("close")
  /\ "close" \in SchemaNames
  /\ lastGet.result = BoundMethod("close")
  /\ instances # {}

\* `db.then` read on a client whose schema list has a schema named then.
C23_WitnessIgnored ==
  /\ NameRead
  /\ lastGet.prop = Str("then")
  /\ "then" \in SchemaNames
  /\ lastGet.result = Undefined

(***************************************************************************)
(* Schema synchronisation (kit/schema-sync): the index list derived from a *)
(* schema and syncSchemaIndexes.                                           *)
(***************************************************************************)
MaxFailAt == 2

\* The order in which the keys of the index specifications of the model were
\* inserted, which is the order Object.entries gives them in.
KeyOrder == <<"authorId", "email", "title">>

SpecKeys(spec) == SelectSeq(KeyOrder, LAMBDA key : key \in DOMAIN spec)

\* String(value) of a key's direction or kind.
ValueString(val) == IF val.k = "number" THEN ToString(val.v) ELSE val.v

RECURSIVE JoinSpec(_, _)
JoinSpec(spec, keys) ==
  IF keys = <<>> THEN ""
  ELSE LET part == Head(keys) \o "_" \o ValueString(spec[Head(keys)])
       IN IF Tail(keys) = <<>> THEN part ELSE part \o "_" \o JoinSpec(spec, Tail(keys))

indexNameFromSpec(spec) == JoinSpec(spec, SpecKeys(spec))

NormalizedFieldIndex(entry) ==
  [spec |-> [x \in {entry.field} |->
               IF "type" \in DOMAIN entry.options THEN entry.options.type ELSE Num(1)],
   options |->
     Merge(CopyTruthy(entry.options, {"name", "unique", "sparse", "partialFilterExpression"}),
           [x \in {"expireAfterSeconds"} \cap DOMAIN entry.options |-> entry.options[x]])]

NormalizedCompoundIndex(index) ==
  [spec |-> index.fields,
   options |-> CopyTruthy(OptionsOf(index),
                          {"name", "unique", "sparse", "partialFilterExpression", "weights"})]

normalizeIndexes(s) ==
  LET fieldIndexes == getFieldIndexes(s)
  IN [i \in 1..Len(fieldIndexes) |-> NormalizedFieldIndex(fieldIndexes[i])]
       \o [i \in 1..Len(s.indexes) |-> NormalizedCompoundIndex(s.indexes[i])]

\* `index.options.name ?? indexNameFromSpec(index.spec)`
IndexName(index) ==
  IF "name" \in DOMAIN index.options THEN index.options["name"].v
  ELSE indexNameFromSpec(index.spec)

RECURSIVE SetToSeq(_)
SetToSeq(S) ==
  IF S = {} THEN <<>>
  ELSE LET x == CHOOSE y \in S : TRUE IN <<x>> \o SetToSeq(S \ {x})

DbCall(method, collection, args) == [method |-> method, collection |-> collection, args |-> args]

MutatingMethods == {"createIndex", "dropIndex", "createCollection", "collMod"}

\* What a call that succeeds does to the database.  createIndex creates the
\* collection when it is missing and names the index as the server does.
ApplyCall(db, call) ==
  LET coll == call.collection
      current == IF coll \in db.collections THEN db.indexes[coll] ELSE {"_id_"}
      with(names) == [collections |-> db.collections \cup {coll},
                      indexes |-> Put(db.indexes, coll, names)]
  IN CASE call.method = "createIndex" ->
            with(current \cup {IndexName([spec |-> call.args[1], options |-> call.args[2]])})
       [] call.method = "createCollection" -> with(current)
       [] call.method = "dropIndex" -> with(current \ {call.args[1]})
       [] OTHER -> db

\* The call is made unless an earlier one threw.  It throws when it is the
\* call chosen to fail, and when it lists the indexes of a missing collection.
Issue(st, call) ==
  IF st.threw THEN st
  ELSE LET made == Append(st.calls, call)
           fails ==
             \/ Len(made) = st.failAt
             \/ call.method = "indexes" /\ call.collection \notin st.db.collections
       IN IF fails THEN [st EXCEPT !.calls = made, !.threw = TRUE]
          ELSE [st EXCEPT !.calls = made, !.db = ApplyCall(st.db, call)]

RECURSIVE EnsureIndexes(_, _, _, _)
EnsureIndexes(st, s, indexes, options) ==
  IF indexes = <<>> THEN st
  ELSE EnsureIndexes(
         IF ~Truthy(Get(options, "dryRun"))
         THEN Issue(st, DbCall("createIndex", s.collection,
                               <<Head(indexes).spec, Head(indexes).options>>))
         ELSE st,
         s, Tail(indexes), options)

\* Variant: the drop is issued in a dry run too.
RECURSIVE DropEach_IgnoresDryRun(_, _, _, _)
DropEach_IgnoresDryRun(st, s, names, options) ==
  IF names = <<>> THEN st
  ELSE DropEach_IgnoresDryRun(
         Issue(st, DbCall("dropIndex", s.collection, <<Head(names)>>)),
         s, Tail(names), options)

RECURSIVE DropEach(_, _, _, _)
DropEach(st, s, names, options) ==
  IF names = <<>> THEN st
  ELSE DropEach(
         IF ~Truthy(Get(options, "dryRun"))
         THEN Issue(st, DbCall("dropIndex", s.collection, <<Head(names)>>))
         ELSE st,
         s, Tail(names), options)

DropUndefined(st, s, indexes, options) ==
  LET listed == Issue(st, DbCall("indexes", s.collection, <<>>))
      existingIndexes ==
        IF listed.threw THEN {} ELSE listed.db.indexes[s.collection]
      keep == {IndexName(indexes[i]) : i \in 1..Len(indexes)} \cup {"_id_"}
  IN DropEach(listed, s, SetToSeq(existingIndexes \ keep), options)

applyCollectionValidator(st, s, options) ==
  LET listed == Issue(st, DbCall("listCollections", s.collection, <<>>))
      found == s.collection \in listed.db.collections
  IN IF listed.threw \/ Truthy(Get(options, "dryRun")) THEN listed
     ELSE IF ~found
          THEN Issue(listed, DbCall("createCollection", s.collection, <<"validator">>))
          ELSE Issue(listed, DbCall("collMod", s.collection, <<"validator">>))

SyncOneSchema(st, s, options) ==
  LET indexes == normalizeIndexes(s)
      ensured == EnsureIndexes(st, s, indexes, options)
      dropped ==
        IF Truthy(Get(options, "dropUndefinedIndexes"))
        THEN DropUndefined(ensured, s, indexes, options) ELSE ensured
  IN IF Truthy(Get(options, "applyValidators"))
     THEN applyCollectionValidator(dropped, s, options) ELSE dropped

RECURSIVE SyncEach(_, _, _)
SyncEach(st, schemas, options) ==
  IF schemas = <<>> THEN st
  ELSE SyncEach(SyncOneSchema(st, Head(schemas), options), Tail(schemas), options)

syncSchemaIndexes(db, schemas, options, failAt) ==
  SyncEach([calls |-> <<>>, db |-> db, threw |-> FALSE, failAt |-> failAt], schemas, options)

\* Field definitions by their index-related modifiers: unique() or not, and
\* index() not called, called without options, or called with options.
SyncFieldDefs ==
  {Merge([type |-> "string", required |-> TRUE, unique |-> u], i) :
     u \in BOOLEAN,
     i \in {EmptyDoc,
            [index |-> [type |-> Num(1)]],
            [index |-> [type |-> Num(1), unique |-> Bool(TRUE)]],
            [index |-> [name |-> Str("by_email")]]}}

CompoundIndexSets ==
  {<<>>,
   <<[fields |-> [authorId |-> Num(1), title |-> Num(0 - 1)],
      options |-> [unique |-> Bool(TRUE)]]>>,
   <<[fields |-> [title |-> Str("text")]]>>}

SyncSchema(collection, def, indexes) ==
  [name |-> collection,
   collection |-> collection,
   timestamps |-> TimestampsOff,
   fieldNames |-> <<"email">>,
   fields |-> [email |-> def],
   indexes |-> indexes]

UsersSchemas == {SyncSchema("users", def, ix) : def \in SyncFieldDefs, ix \in CompoundIndexSets}

PostsSchemas ==
  {SyncSchema("posts", [type |-> "string", required |-> FALSE, unique |-> u], <<>>) :
     u \in BOOLEAN}

SchemaLists ==
  {<<u>> : u \in UsersSchemas} \cup {<<u, p>> : u \in UsersSchemas, p \in PostsSchemas}

SyncOptionsSet ==
  {MkDoc([dryRun |-> d, dropUndefinedIndexes |-> x, applyValidators |-> a]) :
     d \in {Undefined, Bool(TRUE)}, x \in {Undefined, Bool(TRUE)}, a \in {Undefined, Bool(TRUE)}}

\* Databases the synchronisation may find: empty; the collection with only its
\* identity index; with declared and undeclared indexes under derived and
\* explicit names.
Databases ==
  {NoDb,
   [collections |-> {"users"}, indexes |-> [users |-> {"_id_"}]],
   [collections |-> {"users"},
    indexes |-> [users |-> {"_id_", "email_1", "legacy_1"}]],
   [collections |-> {"users", "posts"},
    indexes |-> [users |-> {"_id_", "by_email", "authorId_1_title_-1", "title_text"},
                 posts |-> {"_id_", "email_1", "old_idx"}]]}

SInit == ContractIdle /\ NoClient /\ NoSync /\ NoBuilder

\* syncSchemaIndexes(db, schemas, options)
SyncSchemaIndexes ==
  /\ syncInput = NoSyncInput
  /\ \E schemas \in SchemaLists, options \in SyncOptionsSet, db \in Databases,
        failAt \in 0..MaxFailAt :
       LET r == syncSchemaIndexes(db, schemas, options, failAt)
       IN /\ syncInput' = [schemas |-> schemas, options |-> options, db |-> db,
                           failAt |-> failAt]
          /\ syncCalls' = r.calls
          /\ syncDb' = r.db
          /\ syncOutcome' = IF r.threw THEN Throw(Err("MongoError")) ELSE Return(Undefined)
  /\ UNCHANGED vars
  /\ UNCHANGED cvars
  /\ UNCHANGED bvars

\* The caller takes the outcome.
SyncReturn ==
  /\ syncInput # NoSyncInput
  /\ syncInput' = NoSyncInput
  /\ syncCalls' = <<>>
  /\ syncDb' = NoDb
  /\ syncOutcome' = [kind |-> "none", value |-> Undefined]
  /\ UNCHANGED vars
  /\ UNCHANGED cvars
  /\ UNCHANGED bvars

SNext == SyncSchemaIndexes \/ SyncReturn

SyncSpec == SInit /\ [][SNext]_svars

(***************************************************************************)
(* Properties of schema synchronisation.                                   *)
(***************************************************************************)
Syncing == syncInput # NoSyncInput

SyncedSchemas == {syncInput.schemas[i] : i \in 1..Len(syncInput.schemas)}

\* An index on `field` alone, created with the unique option.
IsUniqueIndexOn(spec, options, field) ==
  DOMAIN spec = {field} /\ Get(options, "unique") = Bool(TRUE)

\* The index list of the kit, the createIndex calls of the client, and the
\* createIndex calls a completed run made each hold a unique index on `field`.
UniqueIndexDerived(s, field) ==
  /\ \E i \in 1..Len(normalizeIndexes(s)) :
       IsUniqueIndexOn(normalizeIndexes(s)[i].spec, normalizeIndexes(s)[i].options, field)
  /\ \E i \in 1..Len(SchemaIndexCalls(s)) :
       IsUniqueIndexOn(SchemaIndexCalls(s)[i].args[1], SchemaIndexCalls(s)[i].args[2], field)
  /\ (syncOutcome.kind = "ok" /\ ~Truthy(Get(syncInput.options, "dryRun"))) =>
       \E i \in 1..Len(syncCalls) :
         /\ syncCalls[i].method = "createIndex" /\ syncCalls[i].collection = s.collection
         /\ IsUniqueIndexOn(syncCalls[i].args[1], syncCalls[i].args[2], field)

\* C21: for every field whose definition has `unique: true`, the index list
\* derived for synchronisation holds an index on that field with the unique
\* option, whether or not index() was also called on the field.
C21_UniqueFieldGetsUniqueIndex ==
  Syncing =>
    \A s \in SyncedSchemas : \A field \in DOMAIN s.fields :
      s.fields[field].unique => UniqueIndexDerived(s, field)

\* What the derivation does: the unique index is there exactly when index()
\* was not called, or was called with `unique` among its own options.
C21_UniqueIndexUnlessIndexCalled ==
  Syncing =>
    \A s \in SyncedSchemas : \A field \in DOMAIN s.fields :
      s.fields[field].unique =>
        (UniqueIndexDerived(s, field) <=>
           ("index" \in DOMAIN s.fields[field]
              => Get(s.fields[field].index, "unique") = Bool(TRUE)))

\* unique() and index() on one field: the one index derived is not unique.
C21_Witness ==
  /\ Syncing /\ syncOutcome.kind = "ok" /\ ~Truthy(Get(syncInput.options, "dryRun"))
  /\ \E s \in SyncedSchemas :
       /\ s.fields["email"].unique
       /\ "index" \in DOMAIN s.fields["email"]
       /\ s.fields["email"].index = [type |-> Num(1)]
       /\ \A i \in 1..Len(syncCalls) :
            (syncCalls[i].method = "createIndex" /\ syncCalls[i].collection = s.collection)
              => "unique" \notin DOMAIN syncCalls[i].args[2]

(***************************************************************************)
(* C30: with dryRun, syncSchemaIndexes issues no createIndex, dropIndex,   *)
(* createCollection or collMod, whatever the schemas and the other         *)
(* options; and it never drops `_id_` or an index whose name is the        *)
(* explicit or derived name of an index the schema declares.               *)
(***************************************************************************)
DryRun == Truthy(Get(syncInput.options, "dryRun"))

DeclaredNames(collection) ==
  UNION {{IndexName(normalizeIndexes(s)[i]) : i \in 1..Len(normalizeIndexes(s))} :
           s \in {x \in SyncedSchemas : x.collection = collection}}

C30_DryRunReadsOnlyAndKeepsDeclared ==
  Syncing =>
    /\ DryRun =>
         /\ \A i \in 1..Len(syncCalls) : syncCalls[i].method \notin MutatingMethods
         /\ syncDb = syncInput.db
    /\ \A i \in 1..Len(syncCalls) :
         syncCalls[i].method = "dropIndex" =>
           syncCalls[i].args[1] \notin {"_id_"} \cup DeclaredNames(syncCalls[i].collection)

\* A dry run with both other options on a database that has undeclared
\* indexes: it lists the indexes and the collections and changes nothing.
C30_Witness ==
  /\ Syncing
  /\ DryRun
  /\ Truthy(Get(syncInput.options, "dropUndefinedIndexes"))
  /\ Truthy(Get(syncInput.options, "applyValidators"))
  /\ syncOutcome.kind = "ok"
  /\ "legacy_1" \in syncDb.indexes["users"]
  /\ \E i \in 1..Len(syncCalls) : syncCalls[i].method = "indexes"
  /\ \E i \in 1..Len(syncCalls) : syncCalls[i].method = "listCollections"

\* A real run that dropped the undeclared index and kept the declared ones.
C30_WitnessDrop ==
  /\ Syncing
  /\ ~DryRun
  /\ syncOutcome.kind = "ok"
  /\ \E i \in 1..Len(syncCalls) :
       syncCalls[i].method = "dropIndex" /\ syncCalls[i].args[1] = "legacy_1"
  /\ {"_id_", "email_1"} \subseteq syncDb.indexes["users"]

(***************************************************************************)
(* The field builders.  A builder holds a private definition that its      *)
(* methods update in place; enum() on a string builder answers with a new  *)
(* enum builder.                                                           *)
(***************************************************************************)
\* The constructor of FieldBuilder.
NewDefinition(type) == [type |-> type, required |-> FALSE, unique |-> FALSE]

IndexOptionsSet ==
  {Undefined, Obj([type |-> Num(1)]), Obj([unique |-> Bool(TRUE)]), Obj([type |-> Str("text")])}

\* Variant: the new builder takes the index only.
StringFieldBuilder_enum_DropsFlags(def, values) ==
  LET builder == Put(NewDefinition("string"), "enum", values)
  IN IF Truthy(Get(def, "index")) THEN Put(builder, "index", def["index"]) ELSE builder

\* StringFieldBuilder.enum: a new EnumFieldBuilder, then required(), unique()
\* and index(def.index) on it for what the string builder's definition has.
StringFieldBuilder_enum(def, values) ==
  LET builder0 == Put(NewDefinition("string"), "enum", values)
      builder1 == IF def["required"] THEN Put(builder0, "required", TRUE) ELSE builder0
      builder2 == IF def["unique"] THEN Put(builder1, "unique", TRUE) ELSE builder1
  IN IF Truthy(Get(def, "index"))
     THEN Put(builder2, "index", IF def["index"] \in {Undefined, Null}
                                 THEN Obj([type |-> Num(1)]) ELSE def["index"])
     ELSE builder2

\* Every action of the builder records the method and the definition it found.
BuilderStep(class, def, method) ==
  /\ builderClass' = class
  /\ definition' = def
  /\ lastCall' = [method |-> method, before |-> definition]
  /\ UNCHANGED vars
  /\ UNCHANGED cvars
  /\ UNCHANGED svars

\* s.string()
NewString ==
  /\ builderClass = "none"
  /\ BuilderStep("string", NewDefinition("string"), "string")

\* .required()
BuilderRequired ==
  /\ builderClass # "none"
  /\ BuilderStep(builderClass, Put(definition, "required", TRUE), "required")

\* .unique()
BuilderUnique ==
  /\ builderClass # "none"
  /\ BuilderStep(builderClass, Put(definition, "unique", TRUE), "unique")

\* .index(options): `options ?? { type: 1 }`
BuilderIndex ==
  /\ builderClass # "none"
  /\ \E options \in IndexOptionsSet :
       BuilderStep(builderClass,
                   Put(definition, "index",
                       IF options = Undefined THEN Obj([type |-> Num(1)]) ELSE options),
                   "index")

\* .default(value)
BuilderDefault ==
  /\ builderClass # "none"
  /\ BuilderStep(builderClass, Put(definition, "default", Str("USER")), "default")

\* .email(), a constraint only the string builder has.
BuilderEmail ==
  /\ builderClass = "string"
  /\ BuilderStep("string", Put(definition, "email", TRUE), "email")

\* .enum(values) on the string builder.
BuilderEnum ==
  /\ builderClass = "string"
  /\ BuilderStep("enum", StringFieldBuilder_enum(definition, RoleEnum), "enum")

\* .build(): the schema takes a copy of the definition and the builder is dropped.
BuilderBuild ==
  /\ builderClass # "none"
  /\ BuilderStep("none", EmptyDoc, "build")

BNext ==
  \/ NewString
  \/ BuilderRequired
  \/ BuilderUnique
  \/ BuilderIndex
  \/ BuilderDefault
  \/ BuilderEmail
  \/ BuilderEnum
  \/ BuilderBuild

BInit == ContractIdle /\ NoClient /\ NoSync /\ NoBuilder

BuilderSpec == BInit /\ [][BNext]_bvars

(***************************************************************************)
(* C24: enum(values) on a string builder yields a definition of type       *)
(* string with the given enum whose required, unique and index are those   *)
(* the string builder had when enum was called.                            *)
(***************************************************************************)
EnumCalled == lastCall.method = "enum"

C24_EnumKeepsFlags ==
  EnumCalled =>
    /\ builderClass = "enum"
    /\ definition["type"] = "string"
    /\ definition["enum"] = RoleEnum
    /\ definition["required"] = lastCall.before["required"]
    /\ definition["unique"] = lastCall.before["unique"]
    /\ Get(definition, "index") = Get(lastCall.before, "index")

\* enum() called after required(), unique() and a text index.
C24_Witness ==
  /\ EnumCalled
  /\ lastCall.before["required"]
  /\ lastCall.before["unique"]
  /\ Get(lastCall.before, "index") = Obj([type |-> Str("text")])
  /\ definition["unique"]

(***************************************************************************)
(* A client and the contracts it hands out, in use: `db[name]` is read and *)
(* create or updateOne is called on the contract that came back.           *)
(***************************************************************************)
ValidationSettings == {DefaultValidation, [enabled |-> TRUE, mode |-> "strict"]}

\* The names read in this composition: two schemas and a shadowed one.
UseProps == {Str("users"), Str("posts"), Str("close")}

\* The schema a contract is built for, with the validation setting its author gave it.
ModeSchema(name, setting) ==
  [MakeSchema(Bool(FALSE)) EXCEPT !.name = name, !.collection = name, !.validation = setting]

\* A document the create and update validators accept, and one they refuse.
ModeDocs == {[email |-> Str("a@b.com")], [email |-> Num(123)]}

HoldsContract == lastGet.result.k = "contract"

\* `db[prop]`: the get trap, and `new CollectionProxy(db, schema, validationMode)`
\* behind it; the contract that comes back is the one the next call is made on.
Use(run) ==
  /\ runs[run].stage = "resolved"
  /\ pc = "idle"
  /\ \E prop \in UseProps, setting \in ValidationSettings :
       LET r == proxyGet(run, prop)
       IN /\ lastGet' = [run |-> run, prop |-> prop, result |-> r.result]
          /\ runs' = [runs EXCEPT ![run].cache = r.cache]
          /\ instances' = r.instances
          /\ IF r.result.k = "contract"
             THEN /\ validationMode' = r.result.v.validationMode
                  /\ schema' = ModeSchema(r.result.v.name, setting)
             ELSE UNCHANGED <<validationMode, schema>>
  /\ UNCHANGED <<clock, pc, op, calledAt, calls, warns, validated, outcome, callerData>>
  /\ UNCHANGED <<config, phase>>
  /\ UNCHANGED svars
  /\ UNCHANGED bvars

\* create(data) on the contract in hand.
ModeCreate ==
  /\ pc = "idle"
  /\ HoldsContract
  /\ \E data \in ModeDocs :
       Serve(OpRec("create", EmptyDoc, Undefined, data, EmptyDoc, clock, Return(Str("ack"))),
             create(data, EmptyDoc, clock, Return(Str("ack"))))

\* updateOne(where, data) on the contract in hand.
ModeUpdateOne ==
  /\ pc = "idle"
  /\ HoldsContract
  /\ \E where \in UpdateFilters, data \in ModeDocs :
       Serve(OpRec("updateOne", where, Undefined, data, EmptyDoc, clock, Return(Str("ack"))),
             updateOne(where, data, EmptyDoc, clock, Return(Str("ack"))))

MInit == ContractIdle /\ NoClient /\ NoSync /\ NoBuilder

MNext ==
  \/ CreateClient
  \/ InvokeFactory
  \/ \E run \in 1..Len(runs) : ConnectDone(run)
  \/ \E run \in 1..Len(runs) : SyncStep(run)
  \/ \E run \in 1..Len(runs) : Use(run)
  \/ ModeCreate
  \/ ModeUpdateOne
  \/ Done

ModeSpec == MInit /\ [][MNext]_<<vars, cvars>>

(***************************************************************************)
(* C29: whether and how a contract validates depends only on the mode it   *)
(* was constructed with, which is the mode of the client and never         *)
(* changes; the schema's own validation setting has no effect; all the     *)
(* contracts of one client have the same mode.                             *)
(***************************************************************************)
InvalidFor(name, data) ==
  IF name = "create" THEN CreateInvalid(data) ELSE UpdateInvalid(data)

C29_State ==
  /\ \A c \in instances : c.validationMode = config.validation
  /\ HoldsContract => validationMode = lastGet.result.v.validationMode
  /\ (Returned /\ op.name \in {"create", "updateOne"}) =>
       /\ validated = (IF validationMode = "off" THEN 0 ELSE 1)
       /\ outcome = Throw(Err("ZodError")) <=>
            (validationMode = "strict" /\ InvalidFor(op.name, op.data))
       /\ warns = 1 <=> (validationMode = "loose" /\ InvalidFor(op.name, op.data))
       /\ outcome # Throw(Err("ZodError")) => Len(calls) = 1

C29_Step ==
  /\ (pc # "idle" \/ pc' # "idle") => validationMode' = validationMode
  /\ validationMode' # validationMode =>
       /\ lastGet'.result.k = "contract"
       /\ validationMode' = config.validation
  /\ (instances # {} /\ HoldsContract) => validationMode' = validationMode
  /\ config.validation # config'.validation => instances = {}

C29_ModeFixedAtConstruction == []C29_State /\ [][C29_Step]_<<vars, cvars>>

\* A client in mode off, a schema that asks for strict validation itself, and
\* an invalid document created through the contract without any validation.
C29_Witness ==
  /\ Returned /\ op.name = "create"
  /\ validationMode = "off"
  /\ schema.validation = [enabled |-> TRUE, mode |-> "strict"]
  /\ CreateInvalid(op.data)
  /\ validated = 0
  /\ Len(calls) = 1

\* A client in mode strict, a schema with validation disabled, and a refusal.
C29_WitnessStrict ==
  /\ Returned /\ op.name = "updateOne"
  /\ validationMode = "strict"
  /\ schema.validation = DefaultValidation
  /\ outcome = Throw(Err("ZodError"))
  /\ Cardinality(instances) >= 2

====
